---- MODULE Spec2Model ----
(***************************************************************************)
(* Real-time reconciliation engine of t2c-now: the GTFS-RT feed cache and  *)
(* its poller (apps/api/src/rt/rtClient.ts) and the departure estimator of *)
(* GET /stops/:stopId/next (apps/api/src/routes/stops.ts).                 *)
(*                                                                         *)
(* Strings are sequences of one-character strings, so that indexOf,        *)
(* substring, split, parseInt, the trip-id pattern and the template        *)
(* literals that build the index keys are computed character by character. *)
(* An optional value (T | null | undefined) is <<>> or <<v>>.              *)
(***************************************************************************)
EXTENDS Integers, Sequences, FiniteSets, TLC

None == <<>>
Some(v) == <<v>>
IsSome(o) == o # <<>>
Val(o) == o[1]

----
(* Strings                                                                 *)

Digits == <<"0", "1", "2", "3", "4", "5", "6", "7", "8", "9">>

IsDigit(c) == \E i \in 1..10 : Digits[i] = c

DigitVal(c) == (CHOOSE i \in 1..10 : Digits[i] = c) - 1

AllDigits(s) == \A i \in 1..Len(s) : IsDigit(s[i])

\* String.prototype.indexOf(ch): 0-based index of the first ch, -1 if none
IndexOf(s, ch) ==
  IF \E i \in 1..Len(s) : s[i] = ch
    THEN (CHOOSE i \in 1..Len(s) : s[i] = ch /\ \A j \in 1..(i - 1) : s[j] # ch) - 1
    ELSE -1

\* String.prototype.substring(from) with 0 <= from <= length
Substring(s, from) == SubSeq(s, from + 1, Len(s))

\* String.prototype.split(ch): the segments between the occurrences of ch
RECURSIVE Split(_, _)
Split(s, ch) ==
  LET i == IndexOf(s, ch)
  IN IF i = -1 THEN <<s>>
     ELSE <<SubSeq(s, 1, i)>> \o Split(Substring(s, i + 1), ch)

\* the value of a string of decimal digits
RECURSIVE DigitsValue(_)
DigitsValue(s) ==
  IF s = <<>> THEN 0
  ELSE 10 * DigitsValue(SubSeq(s, 1, Len(s) - 1)) + DigitVal(s[Len(s)])

\* the longest prefix of s made of digits
RECURSIVE DigitPrefix(_)
DigitPrefix(s) ==
  IF s = <<>> \/ ~IsDigit(s[1]) THEN <<>>
  ELSE <<s[1]>> \o DigitPrefix(Tail(s))

\* parseInt(s, 10): optional sign, then digits up to the first non-digit;
\* NaN (None) when there is no digit
ParseInt(s) ==
  LET neg  == s # <<>> /\ s[1] = "-"
      body == IF s # <<>> /\ s[1] \in {"-", "+"} THEN Tail(s) ELSE s
      ds   == DigitPrefix(body)
  IN IF ds = <<>> THEN None
     ELSE Some(IF neg THEN 0 - DigitsValue(ds) ELSE DigitsValue(ds))

\* String(n) for an integer n >= 0, as in a template literal
RECURSIVE NumToStr(_)
NumToStr(n) ==
  IF n < 10 THEN <<Digits[n + 1]>>
  ELSE NumToStr(n \div 10) \o <<Digits[(n % 10) + 1]>>

\* Math.round(n / 60) for an integer n: halves round towards +Infinity
RoundDiv60(n) == (n + 30) \div 60

----
(* Trip-identifier normalizer                                              *)

\* variant: the first segment is removed twice
normalizeTripIdTwice(tripId) ==
  LET firstUnderscore == IndexOf(tripId, "_")
      once == IF firstUnderscore = -1 THEN tripId
              ELSE Substring(tripId, firstUnderscore + 1)
      secondUnderscore == IndexOf(once, "_")
  IN IF secondUnderscore = -1 THEN once
     ELSE Substring(once, secondUnderscore + 1)

normalizeTripId(tripId) ==
  LET firstUnderscore == IndexOf(tripId, "_")
  IN IF firstUnderscore = -1 THEN tripId
     ELSE Substring(tripId, firstUnderscore + 1)

\* variant: the first segment is any non-empty segment
parseTripIdComponentsAnyPrefix(tripId) ==
  LET seg == Split(tripId, "_")
  IN IF /\ Len(seg) = 5
        /\ seg[1] # <<>>
        /\ seg[2] # <<>> /\ AllDigits(seg[2])
        /\ seg[3] # <<>>
        /\ seg[4] # <<>>
        /\ Len(seg[5]) = 6 /\ AllDigits(seg[5])
     THEN LET time    == seg[5]
              hours   == Val(ParseInt(SubSeq(time, 1, 2)))
              minutes == Val(ParseInt(SubSeq(time, 3, 4)))
              seconds == Val(ParseInt(SubSeq(time, 5, 6)))
          IN Some([serviceCode |-> seg[2], line |-> seg[3], time |-> time,
                   timeSeconds |-> hours * 3600 + minutes * 60 + seconds])
     ELSE None

\* /^\d+_(\d+)_([^_]+)_[^_]+_(\d{6})$/
parseTripIdComponents(tripId) ==
  LET seg == Split(tripId, "_")
  IN IF /\ Len(seg) = 5
        /\ seg[1] # <<>> /\ AllDigits(seg[1])
        /\ seg[2] # <<>> /\ AllDigits(seg[2])
        /\ seg[3] # <<>>
        /\ seg[4] # <<>>
        /\ Len(seg[5]) = 6 /\ AllDigits(seg[5])
     THEN LET time    == seg[5]
              hours   == Val(ParseInt(SubSeq(time, 1, 2)))
              minutes == Val(ParseInt(SubSeq(time, 3, 4)))
              seconds == Val(ParseInt(SubSeq(time, 5, 6)))
          IN Some([serviceCode |-> seg[2], line |-> seg[3], time |-> time,
                   timeSeconds |-> hours * 3600 + minutes * 60 + seconds])
     ELSE None

\* variant: the key has the time itself, not its window of 5 minutes
createFuzzyKeyExact(tripId) ==
  LET components == parseTripIdComponents(tripId)
  IN IF components = None THEN None
     ELSE LET c == Val(components)
          IN Some(c.serviceCode \o <<"_">> \o c.line \o <<"_">> \o NumToStr(c.timeSeconds))

createFuzzyKey(tripId) ==
  LET components == parseTripIdComponents(tripId)
  IN IF components = None THEN None
     ELSE LET c == Val(components)
              timeWindow == (c.timeSeconds \div 300) * 300
          IN Some(c.serviceCode \o <<"_">> \o c.line \o <<"_">> \o NumToStr(timeWindow))

\* variant: the key has the time itself, not its window of 5 minutes
createRouteStopTimeKeyExact(routeId, stopId, timeSeconds) ==
  routeId \o <<"_">> \o stopId \o <<"_">> \o NumToStr(timeSeconds)

createRouteStopTimeKey(routeId, stopId, timeSeconds) ==
  LET timeWindow == (timeSeconds \div 300) * 300
  IN routeId \o <<"_">> \o stopId \o <<"_">> \o NumToStr(timeWindow)

createRouteStopKey(routeId, stopId) == routeId \o <<"_">> \o stopId

----
(* Feed cache builder (fetchRtFeed, after FeedMessage.decode)              *)

\* Map.get / Map.set; a Map is a function on its keys
MapGet(m, k) == IF k \in DOMAIN m THEN Some(m[k]) ELSE None

\* variant: a key that is present keeps its value
MapSetKeepsFirst(m, k, v) ==
  [x \in (DOMAIN m) \cup {k} |-> IF x \in DOMAIN m THEN m[x] ELSE v]

MapSet(m, k, v) == [x \in (DOMAIN m) \cup {k} |-> IF x = k THEN v ELSE m[x]]

\* truthiness of an optional string: present and not ""
Truthy(o) == IsSome(o) /\ Val(o) # <<>>

\* Array.prototype.sort((a, b) => a.departureEpoch - b.departureEpoch): stable
RECURSIVE InsertByEpoch(_, _)
InsertByEpoch(sorted, u) ==
  IF sorted = <<>> THEN <<u>>
  ELSE IF sorted[Len(sorted)].departureEpoch <= u.departureEpoch
    THEN Append(sorted, u)
    ELSE Append(InsertByEpoch(SubSeq(sorted, 1, Len(sorted) - 1), u), sorted[Len(sorted)])

RECURSIVE SortByEpoch(_)
SortByEpoch(list) ==
  IF list = <<>> THEN <<>>
  ELSE InsertByEpoch(SortByEpoch(SubSeq(list, 1, Len(list) - 1)), list[Len(list)])

\* the StopTimeUpdate object built from one stop_time_update of the feed;
\* src identifies the object: <<position of the entity, position of the update>>
MakeUpdate(stu, ei, si) ==
  [arrivalTime    |-> IF IsSome(stu.arrival) THEN Val(stu.arrival).time ELSE None,
   arrivalDelay   |-> IF IsSome(stu.arrival) THEN Val(stu.arrival).delay ELSE None,
   departureTime  |-> IF IsSome(stu.departure) THEN Val(stu.departure).time ELSE None,
   departureDelay |-> IF IsSome(stu.departure) THEN Val(stu.departure).delay ELSE None,
   src            |-> <<ei, si>>]

\* { ...update, departureEpoch: update.departureTime }
WithEpoch(update) ==
  [arrivalTime    |-> update.arrivalTime,
   arrivalDelay   |-> update.arrivalDelay,
   departureTime  |-> update.departureTime,
   departureDelay |-> update.departureDelay,
   src            |-> update.src,
   departureEpoch |-> Val(update.departureTime)]

\* the two route+stop indexes after the update was added to them
IndexDirect(acc, routeId, stopId, update) ==
  [acc EXCEPT
     !.dataByRouteStopTime =
        MapSet(@, createRouteStopTimeKey(routeId, stopId, Val(update.departureTime)), update),
     !.dataByRouteStop =
        MapSet(@, createRouteStopKey(routeId, stopId),
               Append(IF createRouteStopKey(routeId, stopId) \in DOMAIN @
                        THEN @[createRouteStopKey(routeId, stopId)] ELSE <<>>,
                      WithEpoch(update)))]

IndexByStopId(acc, trip, stu, update) ==
  IF ~Truthy(stu.stopId) THEN acc
  ELSE IF Truthy(trip.routeId) /\ IsSome(update.departureTime)
    THEN IndexDirect([acc EXCEPT !.stopTimesByStopId = MapSet(@, Val(stu.stopId), update)],
                     Val(trip.routeId), Val(stu.stopId), update)
    ELSE [acc EXCEPT !.stopTimesByStopId = MapSet(@, Val(stu.stopId), update)]

IndexBySequence(acc, stu, update) ==
  IF IsSome(stu.stopSequence)
    THEN [acc EXCEPT !.stopTimesBySequence = MapSet(@, Val(stu.stopSequence), update)]
    ELSE acc

\* body of the loop over tripUpdate.stopTimeUpdate, for the update at position si
ProcessStu(acc, trip, stu, ei, si) ==
  IndexBySequence(IndexByStopId(acc, trip, stu, MakeUpdate(stu, ei, si)),
                  stu, MakeUpdate(stu, ei, si))

RECURSIVE ProcessStus(_, _, _, _, _)
ProcessStus(acc, trip, stus, ei, si) ==
  IF si > Len(stus) THEN acc
  ELSE ProcessStus(ProcessStu(acc, trip, stus[si], ei, si), trip, stus, ei, si + 1)

\* variant: the fuzzy-key index gets an object of its own, without the
\* stop-time maps
IndexTripFuzzyCopy(b, tripUpdate, ei, acc) ==
  LET trip   == Val(tripUpdate.trip)
      tripId == Val(trip.tripId)
      index  == [tripId      |-> tripId,
                 routeId     |-> trip.routeId,
                 directionId |-> trip.directionId,
                 delay       |-> tripUpdate.delay,
                 stopTimesByStopId   |-> acc.stopTimesByStopId,
                 stopTimesBySequence |-> acc.stopTimesBySequence,
                 ent         |-> ei]
  IN [tripUpdatesCount    |-> b.tripUpdatesCount + 1,
      data                |-> MapSet(b.data, tripId, index),
      dataByNormalizedId  |-> MapSet(b.dataByNormalizedId, normalizeTripId(tripId), index),
      dataByFuzzyKey      |-> IF IsSome(createFuzzyKey(tripId))
                                THEN MapSet(b.dataByFuzzyKey, Val(createFuzzyKey(tripId)),
                                            [index EXCEPT !.stopTimesByStopId = <<>>,
                                                          !.stopTimesBySequence = <<>>])
                                ELSE b.dataByFuzzyKey,
      dataByRouteStopTime |-> acc.dataByRouteStopTime,
      dataByRouteStop     |-> acc.dataByRouteStop]

\* the end of the body of the loop over feed.entity: the TripUpdateIndex
\* object is made of the maps acc holds and stored under its three keys
IndexTrip(b, tripUpdate, ei, acc) ==
  LET trip   == Val(tripUpdate.trip)
      tripId == Val(trip.tripId)
      index  == [tripId      |-> tripId,
                 routeId     |-> trip.routeId,
                 directionId |-> trip.directionId,
                 delay       |-> tripUpdate.delay,
                 stopTimesByStopId   |-> acc.stopTimesByStopId,
                 stopTimesBySequence |-> acc.stopTimesBySequence,
                 ent         |-> ei]
  IN [tripUpdatesCount    |-> b.tripUpdatesCount + 1,
      data                |-> MapSet(b.data, tripId, index),
      dataByNormalizedId  |-> MapSet(b.dataByNormalizedId, normalizeTripId(tripId), index),
      dataByFuzzyKey      |-> IF IsSome(createFuzzyKey(tripId))
                                THEN MapSet(b.dataByFuzzyKey, Val(createFuzzyKey(tripId)), index)
                                ELSE b.dataByFuzzyKey,
      dataByRouteStopTime |-> acc.dataByRouteStopTime,
      dataByRouteStop     |-> acc.dataByRouteStop]

\* body of the loop over feed.entity, for the entity at position ei
ProcessEntity(b, entity, ei) ==
  IF entity.tripUpdate = None THEN b
  ELSE IF Val(entity.tripUpdate).trip = None THEN b
  ELSE IF ~Truthy(Val(Val(entity.tripUpdate).trip).tripId) THEN b
  ELSE IndexTrip(b, Val(entity.tripUpdate), ei,
                 ProcessStus([stopTimesByStopId   |-> <<>>,
                              stopTimesBySequence |-> <<>>,
                              dataByRouteStopTime |-> b.dataByRouteStopTime,
                              dataByRouteStop     |-> b.dataByRouteStop],
                             Val(Val(entity.tripUpdate).trip),
                             Val(entity.tripUpdate).stopTimeUpdate, ei, 1))

RECURSIVE ProcessEntities(_, _, _)
ProcessEntities(b, entities, ei) ==
  IF ei > Len(entities) THEN b
  ELSE ProcessEntities(ProcessEntity(b, entities[ei], ei), entities, ei + 1)

\* variant: the lists stay in the order of the feed
SortListsSkipped(b) == b

\* the loop that sorts every list of dataByRouteStop
SortLists(b) ==
  [b EXCEPT !.dataByRouteStop = [k \in DOMAIN @ |-> SortByEpoch(@[k])]]

\* the indexes of one decoded feed
BuildIndexes(feed) ==
  SortLists(ProcessEntities([tripUpdatesCount    |-> 0,
                             data                |-> <<>>,
                             dataByNormalizedId  |-> <<>>,
                             dataByFuzzyKey      |-> <<>>,
                             dataByRouteStopTime |-> <<>>,
                             dataByRouteStop     |-> <<>>],
                            feed.entity, 1))

\* the object literal assigned to rtCache
RtCacheObject(ix, entityCount, nowMs) ==
  [fetchedAt           |-> nowMs,
   entityCount         |-> entityCount,
   tripUpdatesCount    |-> ix.tripUpdatesCount,
   data                |-> ix.data,
   dataByNormalizedId  |-> ix.dataByNormalizedId,
   dataByFuzzyKey      |-> ix.dataByFuzzyKey,
   dataByRouteStopTime |-> ix.dataByRouteStopTime,
   dataByRouteStop     |-> ix.dataByRouteStop]

NewCache(feed, nowMs) == RtCacheObject(BuildIndexes(feed), Len(feed.entity), nowMs)

----
(* Clock                                                                   *)

\* the zone of the process is UTC+1 (Europe/Paris in winter), no DST change
TzOffsetSeconds == 3600

\* epoch seconds of 00:00:00 local time of the current calendar day
TodayStartEpoch == 1727996400

\* Date.now() at the moment a cache is published, in milliseconds counted
\* from TodayStartEpoch (only differences of Date.now() values are used)
DateNowMs == 53100000

----
(* Closest-update locator                                                  *)

Abs(x) == IF x < 0 THEN 0 - x ELSE x

\* if (delta < closestDelta) { closestDelta = delta; closest = updates[i] }
\* with i a 0-based index; closestDelta = None stands for Infinity
Consider(st, updates, i, targetEpoch) ==
  IF \/ st.closestDelta = None
     \/ Abs(updates[i + 1].departureEpoch - targetEpoch) < Val(st.closestDelta)
    THEN [st EXCEPT !.closest = Some(i),
                    !.closestDelta = Some(Abs(updates[i + 1].departureEpoch - targetEpoch))]
    ELSE st

\* variant: the search always continues in the left half
SearchStepLeft(st, updates, mid, targetEpoch) ==
  [Consider(st, updates, mid, targetEpoch) EXCEPT !.right = mid - 1]

\* one iteration of the while loop, mid being Math.floor((left + right) / 2)
SearchStep(st, updates, mid, targetEpoch) ==
  IF updates[mid + 1].departureEpoch < targetEpoch
    THEN [Consider(st, updates, mid, targetEpoch) EXCEPT !.left = mid + 1]
    ELSE [Consider(st, updates, mid, targetEpoch) EXCEPT !.right = mid - 1]

RECURSIVE SearchLoop(_, _, _)
SearchLoop(st, updates, targetEpoch) ==
  IF st.left > st.right THEN st
  ELSE SearchLoop(SearchStep(st, updates, (st.left + st.right) \div 2, targetEpoch),
                  updates, targetEpoch)

\* the two checks of the neighbours, at left and at left - 1
CheckNeighbours(st, updates, targetEpoch) ==
  IF st.left > 0
    THEN Consider(IF st.left < Len(updates)
                    THEN Consider(st, updates, st.left, targetEpoch) ELSE st,
                  updates, st.left - 1, targetEpoch)
  ELSE IF st.left < Len(updates)
    THEN Consider(st, updates, st.left, targetEpoch)
    ELSE st

\* variant: the closest update whatever its distance
ClosestAtAnyDistance(st, updates, maxDeltaSeconds) ==
  IF IsSome(st.closest) THEN Some(updates[Val(st.closest) + 1]) ELSE None

ClosestWithin(st, updates, maxDeltaSeconds) ==
  IF IsSome(st.closest) /\ Val(st.closestDelta) <= maxDeltaSeconds
    THEN Some(updates[Val(st.closest) + 1])
    ELSE None

findClosestRtUpdate(cache, routeId, stopId, targetEpoch, maxDeltaSeconds) ==
  IF createRouteStopKey(routeId, stopId) \notin DOMAIN cache.dataByRouteStop THEN None
  ELSE IF Len(cache.dataByRouteStop[createRouteStopKey(routeId, stopId)]) = 0 THEN None
  ELSE ClosestWithin(
         CheckNeighbours(
           SearchLoop([left |-> 0,
                       right |-> Len(cache.dataByRouteStop[createRouteStopKey(routeId, stopId)]) - 1,
                       closest |-> None, closestDelta |-> None],
                      cache.dataByRouteStop[createRouteStopKey(routeId, stopId)], targetEpoch),
           cache.dataByRouteStop[createRouteStopKey(routeId, stopId)], targetEpoch),
         cache.dataByRouteStop[createRouteStopKey(routeId, stopId)], maxDeltaSeconds)

----
(* Departure estimator: GET /stops/:stopId/next                            *)

\* seconds since local midnight of a Date given in epoch seconds:
\* getHours() * 3600 + getMinutes() * 60 + getSeconds()
LocalSeconds(epoch) == (epoch + TzOffsetSeconds) % 86400

\* epoch seconds of the Date after setHours(0, 0, 0, 0)
LocalMidnight(epoch) == epoch - LocalSeconds(epoch)

timeToSeconds(timeStr) ==
  LET parts == Split(timeStr, ":")
  IN Val(ParseInt(parts[1])) * 3600 + Val(ParseInt(parts[2])) * 60
       + Val(ParseInt(IF Len(parts) >= 3 THEN parts[3] ELSE <<"0">>))

\* two decimal digits
Pad2(n) == <<Digits[(n \div 10) + 1], Digits[(n % 10) + 1]>>

\* formatTime of the Date that is finalSeconds seconds after local midnight:
\* toLocaleTimeString('fr-FR', { hour: '2-digit', minute: '2-digit' })
formatTime(finalSeconds) ==
  Pad2((finalSeconds % 86400) \div 3600) \o <<":">> \o Pad2((finalSeconds % 3600) \div 60)

\* Math.min(Math.max(1, parseInt(limitParam ?? '3', 10) || 3), 10)
Min(a, b) == IF a < b THEN a ELSE b
Max(a, b) == IF a > b THEN a ELSE b

OrThree(n) == IF n = None \/ n = Some(0) THEN 3 ELSE Val(n)

\* variant: without the upper bound
EffectiveLimitUncapped(limitParam) ==
  Max(1, OrThree(ParseInt(IF IsSome(limitParam) THEN Val(limitParam) ELSE <<"3">>)))

EffectiveLimit(limitParam) ==
  Min(Max(1, OrThree(ParseInt(IF IsSome(limitParam) THEN Val(limitParam) ELSE <<"3">>))), 10)

\* variant: the raw id only
LookupTripRawOnly(cache, tripId) ==
  MapGet(cache.data, tripId)

\* variant: the fuzzy key first, then the normalized id, then the raw id
LookupTripFuzzyFirst(cache, tripId) ==
  IF createFuzzyKey(tripId) # None /\ Val(createFuzzyKey(tripId)) \in DOMAIN cache.dataByFuzzyKey
    THEN Some(cache.dataByFuzzyKey[Val(createFuzzyKey(tripId))])
  ELSE IF normalizeTripId(tripId) \in DOMAIN cache.dataByNormalizedId
    THEN Some(cache.dataByNormalizedId[normalizeTripId(tripId)])
  ELSE MapGet(cache.data, tripId)

\* rtCache.data.get(id) ?? rtCache.dataByNormalizedId.get(normalizeTripId(id))
\*   ?? (fuzzyKey ? rtCache.dataByFuzzyKey.get(fuzzyKey) : undefined)
LookupTrip(cache, tripId) ==
  IF tripId \in DOMAIN cache.data THEN Some(cache.data[tripId])
  ELSE IF normalizeTripId(tripId) \in DOMAIN cache.dataByNormalizedId
    THEN Some(cache.dataByNormalizedId[normalizeTripId(tripId)])
  ELSE IF createFuzzyKey(tripId) = None THEN None
  ELSE MapGet(cache.dataByFuzzyKey, Val(createFuzzyKey(tripId)))

\* variant: stuByStop ?? stuBySeq
LookupStopByStopIdFirst(tripUpdate, c) ==
  IF c.stop_id \in DOMAIN tripUpdate.stopTimesByStopId
    THEN Some(tripUpdate.stopTimesByStopId[c.stop_id])
    ELSE MapGet(tripUpdate.stopTimesBySequence, c.stop_sequence)

\* stuBySeq ?? stuByStop
LookupStop(tripUpdate, c) ==
  IF c.stop_sequence \in DOMAIN tripUpdate.stopTimesBySequence
    THEN Some(tripUpdate.stopTimesBySequence[c.stop_sequence])
    ELSE MapGet(tripUpdate.stopTimesByStopId, c.stop_id)

\* variant: the local time of the departure epoch with no shift of 24 h
ApplyStuSameDay(e, stu, nowSeconds) ==
  IF stu = None THEN e
  ELSE IF IsSome(Val(stu).departureTime)
    THEN [e EXCEPT
            !.final = LocalSeconds(Val(Val(stu).departureTime)),
            !.realtime = TRUE,
            !.delayMinutes =
               Some(RoundDiv60(LocalSeconds(Val(Val(stu).departureTime)) - e.theoretical)),
            !.stu = Some(Val(stu).src),
            !.by = "time"]
  ELSE IF IsSome(Val(stu).departureDelay)
    THEN [e EXCEPT !.final = e.theoretical + Val(Val(stu).departureDelay),
                   !.realtime = TRUE,
                   !.delayMinutes = Some(RoundDiv60(Val(Val(stu).departureDelay))),
                   !.stu = Some(Val(stu).src),
                   !.by = "delay"]
  ELSE [e EXCEPT !.stu = Some(Val(stu).src)]

\* variant: the delay in seconds first, else the absolute departure time
ApplyStuDelayFirst(e, stu, nowSeconds) ==
  IF stu = None THEN e
  ELSE IF IsSome(Val(stu).departureDelay)
    THEN [e EXCEPT !.final = e.theoretical + Val(Val(stu).departureDelay),
                   !.realtime = TRUE,
                   !.delayMinutes = Some(RoundDiv60(Val(Val(stu).departureDelay))),
                   !.stu = Some(Val(stu).src),
                   !.by = "delay"]
  ELSE IF IsSome(Val(stu).departureTime)
    THEN [e EXCEPT
            !.final = IF LocalSeconds(Val(Val(stu).departureTime)) < nowSeconds - 3600
                        THEN LocalSeconds(Val(Val(stu).departureTime)) + 86400
                        ELSE LocalSeconds(Val(Val(stu).departureTime)),
            !.realtime = TRUE,
            !.delayMinutes =
               Some(RoundDiv60((IF LocalSeconds(Val(Val(stu).departureTime)) < nowSeconds - 3600
                                  THEN LocalSeconds(Val(Val(stu).departureTime)) + 86400
                                  ELSE LocalSeconds(Val(Val(stu).departureTime)))
                               - e.theoretical)),
            !.stu = Some(Val(stu).src),
            !.by = "time"]
  ELSE [e EXCEPT !.stu = Some(Val(stu).src)]

\* the block "if (stu) { ... }": absolute departure time, else delay
ApplyStu(e, stu, nowSeconds) ==
  IF stu = None THEN e
  ELSE IF IsSome(Val(stu).departureTime)
    THEN [e EXCEPT
            !.final = IF LocalSeconds(Val(Val(stu).departureTime)) < nowSeconds - 3600
                        THEN LocalSeconds(Val(Val(stu).departureTime)) + 86400
                        ELSE LocalSeconds(Val(Val(stu).departureTime)),
            !.realtime = TRUE,
            !.delayMinutes =
               Some(RoundDiv60((IF LocalSeconds(Val(Val(stu).departureTime)) < nowSeconds - 3600
                                  THEN LocalSeconds(Val(Val(stu).departureTime)) + 86400
                                  ELSE LocalSeconds(Val(Val(stu).departureTime)))
                               - e.theoretical)),
            !.stu = Some(Val(stu).src),
            !.by = "time"]
  ELSE IF IsSome(Val(stu).departureDelay)
    THEN [e EXCEPT !.final = e.theoretical + Val(Val(stu).departureDelay),
                   !.realtime = TRUE,
                   !.delayMinutes = Some(RoundDiv60(Val(Val(stu).departureDelay))),
                   !.stu = Some(Val(stu).src),
                   !.by = "delay"]
  ELSE [e EXCEPT !.stu = Some(Val(stu).src)]

\* the block "if (!stu && !isRealtime) { ... }" and the block after it
Proximity(e, cache, c, routeId, now, stu) ==
  IF stu = None /\ ~e.realtime
    THEN ApplyStu([e EXCEPT !.locator = Some([routeId |-> routeId, stopId |-> c.stop_id,
                                              targetEpoch |-> LocalMidnight(now) + e.theoretical,
                                              maxDeltaSeconds |-> 900])],
                  findClosestRtUpdate(cache, routeId, c.stop_id,
                                      LocalMidnight(now) + e.theoretical, 900),
                  LocalSeconds(now))
    ELSE ApplyStu(e, stu, LocalSeconds(now))

\* variant: the trip-level delay is applied and the flag is left as it is
TripLevelNotFlagged(e, tripUpdate, stu) ==
  IF stu = None /\ IsSome(tripUpdate.delay)
    THEN [e EXCEPT !.final = e.theoretical + Val(tripUpdate.delay),
                   !.delayMinutes = Some(RoundDiv60(Val(tripUpdate.delay))),
                   !.trip = Some(tripUpdate.ent),
                   !.by = "trip"]
    ELSE [e EXCEPT !.trip = Some(tripUpdate.ent)]

\* the block "if (tripUpdate) { ... }": the trip-level delay when there is no
\* stop-level update
TripLevel(e, tripUpdate, stu) ==
  IF stu = None /\ IsSome(tripUpdate.delay)
    THEN [e EXCEPT !.final = e.theoretical + Val(tripUpdate.delay),
                   !.realtime = TRUE,
                   !.delayMinutes = Some(RoundDiv60(Val(tripUpdate.delay))),
                   !.trip = Some(tripUpdate.ent),
                   !.by = "trip"]
    ELSE [e EXCEPT !.trip = Some(tripUpdate.ent)]

WithTrip(e, cache, c, routeId, now, tripUpdate) ==
  IF tripUpdate = None
    THEN Proximity(e, cache, c, routeId, now, None)
    ELSE Proximity(TripLevel(e, Val(tripUpdate), LookupStop(Val(tripUpdate), c)),
                   cache, c, routeId, now, LookupStop(Val(tripUpdate), c))

\* what the callback of candidatesAfterTime.map computes for candidate c before
\* it builds the Departure: the final time, the flag and the delay; trip, stu,
\* locator and by record which trip update, which stop-time update, which
\* locator query and which rule it used
Estimate(rtCacheObj, c, routeId, now) ==
  IF rtCacheObj = None
    THEN [theoretical |-> timeToSeconds(c.departure_time),
          final |-> timeToSeconds(c.departure_time),
          realtime |-> FALSE, delayMinutes |-> None,
          trip |-> None, stu |-> None, locator |-> None, by |-> "none"]
    ELSE WithTrip([theoretical |-> timeToSeconds(c.departure_time),
                   final |-> timeToSeconds(c.departure_time),
                   realtime |-> FALSE, delayMinutes |-> None,
                   trip |-> None, stu |-> None, locator |-> None, by |-> "none"],
                  Val(rtCacheObj), c, routeId, now,
                  LookupTrip(Val(rtCacheObj), c.trip_id))

\* the Departure object; cand is the position of the candidate in the rows of
\* the query, final the final time the Departure was built from
Departure(e, cand, nowSeconds) ==
  [minutes |-> RoundDiv60(e.final - nowSeconds),
   time |-> formatTime(e.final),
   realtime |-> e.realtime,
   delayMinutes |-> e.delayMinutes,
   cand |-> cand,
   final |-> e.final]

\* candidatesAfterService and then candidatesAfterTime: the positions, from
\* i on, of the rows of an active service that depart after nowSeconds
RECURSIVE FilterCandidates(_, _, _, _)
FilterCandidates(rows, i, activeServiceIds, nowSeconds) ==
  IF i > Len(rows) THEN <<>>
  ELSE IF /\ rows[i].service_id \in activeServiceIds
          /\ timeToSeconds(rows[i].departure_time) > nowSeconds
    THEN <<i>> \o FilterCandidates(rows, i + 1, activeServiceIds, nowSeconds)
    ELSE FilterCandidates(rows, i + 1, activeServiceIds, nowSeconds)

\* .filter((d) => d.minutes >= 0)
RECURSIVE FilterNotDeparted(_)
FilterNotDeparted(list) ==
  IF list = <<>> THEN <<>>
  ELSE IF Head(list).minutes >= 0 THEN <<Head(list)>> \o FilterNotDeparted(Tail(list))
  ELSE FilterNotDeparted(Tail(list))

\* Array.prototype.sort((a, b) => a.minutes - b.minutes): stable
RECURSIVE InsertByMinutes(_, _)
InsertByMinutes(sorted, d) ==
  IF sorted = <<>> THEN <<d>>
  ELSE IF sorted[Len(sorted)].minutes <= d.minutes
    THEN Append(sorted, d)
    ELSE Append(InsertByMinutes(SubSeq(sorted, 1, Len(sorted) - 1), d), sorted[Len(sorted)])

RECURSIVE SortByMinutes(_)
SortByMinutes(list) ==
  IF list = <<>> THEN <<>>
  ELSE InsertByMinutes(SortByMinutes(SubSeq(list, 1, Len(list) - 1)), list[Len(list)])

\* Array.prototype.slice(0, n)
Slice(list, n) == SubSeq(list, 1, Min(n, Len(list)))

candidatesAfterTime(r) ==
  FilterCandidates(r.allCandidates, 1, r.activeServiceIds, LocalSeconds(r.now))

\* departuresUnsorted
departuresUnsorted(rtCacheObj, r) ==
  [k \in 1..Len(candidatesAfterTime(r)) |->
     Departure(Estimate(rtCacheObj, r.allCandidates[candidatesAfterTime(r)[k]], r.routeId, r.now),
               candidatesAfterTime(r)[k], LocalSeconds(r.now))]

\* .filter((d) => d.minutes >= 0).sort((a, b) => a.minutes - b.minutes)
departuresSorted(unsorted) == SortByMinutes(FilterNotDeparted(unsorted))

\* the response of the handler to request r, rtCacheObj being what getRtCache()
\* returned; limit and sorted are the limit and the list before .slice(0, limit),
\* after is candidatesAfterTime and estimates what was computed for each of them
NextResponse(rtCacheObj, r) ==
  [departures |-> Slice(departuresSorted(departuresUnsorted(rtCacheObj, r)),
                        EffectiveLimit(r.limitParam)),
   rtAgeSeconds |-> IF rtCacheObj = None THEN None
                    ELSE Some(((r.now - TodayStartEpoch) * 1000 - Val(rtCacheObj).fetchedAt + 500)
                                \div 1000),
   limit |-> EffectiveLimit(r.limitParam),
   sorted |-> departuresSorted(departuresUnsorted(rtCacheObj, r)),
   estimates |-> [k \in 1..Len(candidatesAfterTime(r)) |->
                    Estimate(rtCacheObj, r.allCandidates[candidatesAfterTime(r)[k]],
                             r.routeId, r.now)],
   after |-> candidatesAfterTime(r)]

----
(* Sample data                                                             *)

S_S1 == <<"S", "1">>
S_S2 == <<"S", "2">>
S_S9 == <<"S", "9">>
R_B  == <<"B">>
R_C  == <<"C">>

\* trip ids of the feed and of the schedule
T9_1B5_144800 == <<"9", "_", "1", "_", "B", "_", "5", "_", "1", "4", "4", "8", "0", "0">>
T7_1B5_144800 == <<"7", "_", "1", "_", "B", "_", "5", "_", "1", "4", "4", "8", "0", "0">>
T6_1B5_144800 == <<"6", "_", "1", "_", "B", "_", "5", "_", "1", "4", "4", "8", "0", "0">>
T8_1B6_144900 == <<"8", "_", "1", "_", "B", "_", "6", "_", "1", "4", "4", "9", "0", "0">>
T6_1B7_144700 == <<"6", "_", "1", "_", "B", "_", "7", "_", "1", "4", "4", "7", "0", "0">>
T7_1B5_144000 == <<"7", "_", "1", "_", "B", "_", "5", "_", "1", "4", "4", "0", "0", "0">>
T7_1B5_153000 == <<"7", "_", "1", "_", "B", "_", "5", "_", "1", "5", "3", "0", "0", "0">>
T_PLAIN       == <<"T", "4", "2">>
T_A_B         == <<"A", "_", "B">>

\* a departure or arrival StopTimeEvent of the feed
Event(time, delay) == Some([time |-> time, delay |-> delay])

FeedStu(stopId, stopSequence, arrival, departure) ==
  [stopId |-> stopId, stopSequence |-> stopSequence,
   arrival |-> arrival, departure |-> departure]

FeedTrip(tripId, routeId, delay, stus) ==
  [tripUpdate |-> Some([trip  |-> Some([tripId |-> tripId, routeId |-> routeId,
                                        directionId |-> Some(0)]),
                        delay |-> delay,
                        stopTimeUpdate |-> stus])]

\* an entity that carries no trip update (a vehicle position or an alert)
FeedOther == [tripUpdate |-> None]

At(h, m, sec) == TodayStartEpoch + h * 3600 + m * 60 + sec

\* 1: one trip, stop-level departure delay of 120 s
Feed1 == [entity |-> <<
  FeedTrip(Some(T9_1B5_144800), Some(R_B), None,
           <<FeedStu(Some(S_S1), Some(3), None, Event(None, Some(120)))>>) >>]

\* 2: stop-level absolute time and delay, and a trip-level delay
Feed2 == [entity |-> <<
  FeedTrip(Some(T9_1B5_144800), Some(R_B), Some(300),
           <<FeedStu(Some(S_S1), Some(3), None, Event(Some(At(14, 50, 30)), Some(60)))>>) >>]

\* 3: trip-level delay only, an entity without trip update, a trip without id
Feed3 == [entity |-> <<
  FeedOther,
  FeedTrip(Some(T7_1B5_144800), None, Some(180), <<>>),
  FeedTrip(Some(<<>>), Some(R_B), Some(60), <<>>) >>]

\* 4: three trips that share normalized ids and fuzzy keys
Feed4 == [entity |-> <<
  FeedTrip(Some(T7_1B5_144800), None, None,
           <<FeedStu(Some(S_S1), Some(3), None, Event(None, Some(60)))>>),
  FeedTrip(Some(T9_1B5_144800), None, None,
           <<FeedStu(Some(S_S1), Some(3), None, Event(None, Some(120)))>>),
  FeedTrip(Some(T8_1B6_144900), None, None,
           <<FeedStu(Some(S_S1), Some(3), None, Event(None, Some(240)))>>) >>]

\* 5: no trip of the schedule, route+stop updates in feed order 15:30, 14:52
Feed5 == [entity |-> <<
  FeedTrip(Some(T_PLAIN), Some(R_B), None,
           <<FeedStu(Some(S_S1), None, None, Event(Some(At(15, 30, 0)), None)),
             FeedStu(Some(S_S1), None, None, Event(Some(At(14, 52, 0)), Some(30)))>>) >>]

\* 6: nothing that matches: another route, another stop, far in time
Feed6 == [entity |-> <<
  FeedTrip(Some(T_A_B), Some(R_C), None,
           <<FeedStu(Some(S_S9), Some(1), None, Event(Some(At(14, 50, 0)), None))>>),
  FeedTrip(Some(T7_1B5_153000), Some(R_B), None,
           <<FeedStu(Some(S_S1), None, None, Event(Some(At(18, 0, 0)), None))>>) >>]

\* 7: matched trip whose stop-level update has an arrival only, with a
\* trip-level delay, and a route+stop update of another trip close by
Feed7 == [entity |-> <<
  FeedTrip(Some(T7_1B5_144800), Some(R_B), Some(180),
           <<FeedStu(Some(S_S1), Some(3), Event(Some(At(14, 49, 0)), None), None)>>),
  FeedTrip(Some(T_PLAIN), Some(R_B), None,
           <<FeedStu(Some(S_S1), None, None, Event(Some(At(14, 52, 0)), None))>>) >>]

\* 8: a late trip (scheduled 14:40, +600 s) and early trips (-200 s, -240 s)
Feed8 == [entity |-> <<
  FeedTrip(Some(T7_1B5_144000), Some(R_B), None,
           <<FeedStu(Some(S_S1), Some(3), None, Event(None, Some(600)))>>),
  FeedTrip(Some(T7_1B5_144800), Some(R_B), None,
           <<FeedStu(Some(S_S1), Some(3), None, Event(None, Some(-200))),
             FeedStu(Some(S_S2), Some(4), None, Event(None, Some(-240)))>>) >>]

Feeds == <<Feed1, Feed2, Feed3, Feed4, Feed5, Feed6, Feed7, Feed8>>

\* the feeds the source of the poller serves: Feeds[1..MaxPollFeeds]
MaxPollFeeds == 2

\* a departure_time of stop_times, "HH:MM:SS"
Hms(h, m, sec) == Pad2(h) \o <<":">> \o Pad2(m) \o <<":">> \o Pad2(sec)

Row(tripId, serviceId, h, m, sec, stopId, stopSequence) ==
  [trip_id |-> tripId, service_id |-> serviceId, departure_time |-> Hms(h, m, sec),
   stop_id |-> stopId, stop_sequence |-> stopSequence]

\* rows of stop_times for route B, in the order of the query (departure_time)
Pool == <<
  Row(T7_1B5_144000, "SV1", 14, 40, 0, S_S1, 3),
  Row(T6_1B7_144700, "SV1", 14, 47, 0, S_S1, 3),
  Row(T7_1B5_144800, "SV1", 14, 48, 0, S_S1, 3),
  Row(T6_1B5_144800, "SV1", 14, 48, 0, S_S1, 3),
  Row(T7_1B5_144800, "SV1", 14, 49, 0, S_S2, 4),
  Row(T_A_B,         "SV1", 14, 55, 0, S_S1, 5),
  Row(T_PLAIN,       "SV1", 15, 0, 0, S_S1, 9),
  Row(T7_1B5_153000, "SV2", 15, 30, 0, S_S1, 3) >>

\* a request has at most MaxCands rows
MaxCands == 3

RECURSIVE RowsAt(_, _)
RowsAt(sel, i) ==
  IF i > Len(Pool) THEN <<>>
  ELSE IF i \in sel THEN <<Pool[i]>> \o RowsAt(sel, i + 1)
  ELSE RowsAt(sel, i + 1)

CandidateLists ==
  {RowsAt(sel, 1) : sel \in {x \in SUBSET (1..Len(Pool)) : Cardinality(x) <= MaxCands}}

\* the moments of the requests: 14:45:00 and 14:47:45 local time
NowValues == {At(14, 45, 0), At(14, 47, 45)}

\* the limit parameter of the query string, with the number it asks for
LimitSamples == <<
  [text |-> None, asks |-> None],
  [text |-> Some(<<"1">>), asks |-> Some(1)],
  [text |-> Some(<<"2">>), asks |-> Some(2)],
  [text |-> Some(<<"0">>), asks |-> Some(0)],
  [text |-> Some(<<"1", "2">>), asks |-> Some(12)],
  [text |-> Some(<<"-", "4">>), asks |-> Some(-4)],
  [text |-> Some(<<"x">>), asks |-> None] >>

Requests ==
  [now : NowValues,
   routeId : {R_B},
   limitParam : {LimitSamples[i].text : i \in DOMAIN LimitSamples},
   activeServiceIds : {{"SV1"}},
   allCandidates : CandidateLists]

----
(* Poller state (module-level state of rtClient.ts) and its environment    *)

VARIABLES
  env,              \* process.env: GTFS_RT_URL, GTFS_RT_PATH (optional strings)
  source,           \* what the real-time source answers at this moment
  rtCache,          \* let rtCache: reference to the published RtCache, or None
  heap,             \* the RtCache objects that are still referenced
  lastError,        \* let lastError: string | null
  pollingInterval,  \* let pollingInterval: handle of a timer, or None
  timers,           \* the active setInterval timers: handle -> interval in ms
  inflight,         \* the fetchRtFeed calls suspended at an await, oldest first
  held,             \* the reference a request handler got from getRtCache()
  req,              \* the inputs of a call from outside the poller (a GET
                    \* /stops/:stopId/next request or a call of an exported
                    \* function), or None
  resp,             \* what the call returned, or None
  app               \* the web client: the useState cells of the component App
                    \* (App.tsx), the interval of its auto-refresh effect
                    \* and its handlers that are suspended at an await

vars == <<env, source, rtCache, heap, lastError, pollingInterval, timers,
          inflight, held, req, resp, app>>

pollerVars == <<env, source, rtCache, heap, lastError, pollingInterval, timers,
                inflight, held>>

\* a DirectionsState or a DeparturesState of App.tsx; `of' names the stop
\* (and the direction) for which the content was fetched
ViewState(status, content, message, of) ==
  [status |-> status, content |-> content, message |-> message, of |-> of]

ViewIdle == ViewState("idle", None, None, None)

ViewLoading == ViewState("loading", None, None, None)

\* the component App after its first render
AppStart ==
  [screen            |-> "stops",
   directionsState   |-> ViewIdle,
   departuresState   |-> ViewIdle,
   selectedStop      |-> None,
   selectedDirection |-> None,
   lastUpdated       |-> None,
   isRefreshing      |-> FALSE,
   refreshError      |-> None,
   intervalId        |-> None,
   awaiting          |-> <<>>]

\* at most MaxInflight fetch cycles are suspended at the same time
MaxInflight == 2

\* at most MaxTimers timers are created and still active
MaxTimers == 2

GTFS_RT_POLL_SECONDS == 15

UrlValue  == "https://rt.example/trip-updates"
PathValue == "/data/trip-updates.pb"

\* variant: the file path has priority over the URL
getSourceTypePathFirst(e) ==
  IF IsSome(e.path) /\ Val(e.path) # "" THEN "file"
  ELSE IF IsSome(e.url) /\ Val(e.url) # "" THEN "url"
  ELSE "none"

getSourceType(e) ==
  IF IsSome(e.url) /\ Val(e.url) # "" THEN "url"
  ELSE IF IsSome(e.path) /\ Val(e.path) # "" THEN "file"
  ELSE "none"

RT_SOURCE_TYPE == getSourceType(env)

\* the source either serves the encoding of Feeds[feed] ("good") or fails
\* ("failing"); how it fails is decided each time it is asked: no connection or
\* no such file, an HTTP error status or a file that cannot be read, a
\* transfer that breaks off, or bytes that are no FeedMessage
Sources ==
  {[kind |-> "failing", feed |-> 0]}
    \cup {[kind |-> "good", feed |-> f] : f \in 1..MaxPollFeeds}

\* a handle or reference that is not in use
Fresh(used) == CHOOSE r \in 1..(Cardinality(used) + 1) : r \notin used

OptSet(o) == IF IsSome(o) THEN {Val(o)} ELSE {}

\* the suspended cycles once cycle i has ended; overtaken records, for each
\* cycle that is left, that a cycle that began after it has published
AfterCycle(cycles, i, published) ==
  [k \in 1..(Len(cycles) - 1) |->
     IF k < i
       THEN [cycles[k] EXCEPT !.overtaken = @ \/ published]
       ELSE cycles[k + 1]]

Init ==
  /\ env \in [url : {None, Some(UrlValue)}, path : {None, Some(PathValue)}]
  /\ source \in Sources
  /\ rtCache = None
  /\ heap = <<>>
  /\ lastError = None
  /\ pollingInterval = None
  /\ timers = <<>>
  /\ inflight = <<>>
  /\ held = None
  /\ app = AppStart
  /\ req = None
  /\ resp = None

\* a catch block that also drops the cache
CatchErrorDropsCache(message) ==
  /\ lastError' = Some(message)
  /\ rtCache' = None
  /\ heap' = [r \in OptSet(held) |-> heap[r]]

\* the catch block of fetchRtFeed
CatchError(message) ==
  /\ lastError' = Some(message)
  /\ UNCHANGED <<rtCache, heap>>

\* the RtCache object built from each of the feeds, at DateNowMs
CacheOfFeed == [f \in DOMAIN Feeds |-> NewCache(Feeds[f], DateNowMs)]

\* a publication that refills the published object instead of replacing it
PublishCacheInPlace(feed) ==
  LET ref == IF IsSome(rtCache) THEN Val(rtCache) ELSE Fresh(OptSet(held))
  IN /\ rtCache' = Some(ref)
     /\ heap' = [r \in OptSet(held) \cup {ref} |->
                   IF r = ref THEN CacheOfFeed[feed] ELSE heap[r]]
     /\ lastError' = None

\* a publication that leaves the recorded error in place
PublishCacheKeepsError(feed) ==
  LET ref == Fresh(OptSet(rtCache) \cup OptSet(held))
  IN /\ rtCache' = Some(ref)
     /\ heap' = [r \in OptSet(held) \cup {ref} |->
                   IF r = ref THEN CacheOfFeed[feed] ELSE heap[r]]
     /\ UNCHANGED lastError

\* the end of the try block of fetchRtFeed, from FeedMessage.decode on: the
\* indexes of the decoded feed Feeds[feed] are built, the new cache is assigned
\* and the error is cleared. Objects nobody references any more leave the heap.
PublishCache(feed) ==
  LET used == OptSet(rtCache) \cup OptSet(held)
      ref  == Fresh(used)
      keep == OptSet(held)
  IN /\ rtCache' = Some(ref)
     /\ heap' = [r \in keep \cup {ref} |->
                   IF r = ref THEN CacheOfFeed[feed] ELSE heap[r]]
     /\ lastError' = None

\* FeedMessage.decode(buffer) and what follows it in fetchRtFeed
DecodeAndPublish(payload) ==
  IF payload.kind = "good"
    THEN PublishCache(payload.feed)
    ELSE CatchError("index out of range: 3 + 10 > 5")

\* fetchRtFeed() up to its first suspension. In file mode existsSync() runs
\* before the first suspension, and the rejection it causes is handled before
\* any other callback runs.
BeginFetch ==
  IF RT_SOURCE_TYPE = "none"
    THEN UNCHANGED <<inflight, lastError, rtCache, heap>>
  ELSE IF RT_SOURCE_TYPE = "url"
    THEN /\ inflight' = Append(inflight, [pc |-> "fetch", overtaken |-> FALSE])
         /\ UNCHANGED <<lastError, rtCache, heap>>
  ELSE \/ /\ source.kind = "failing"
          /\ CatchError("File not found: " \o Val(env.path))
          /\ UNCHANGED inflight
       \/ /\ inflight' = Append(inflight, [pc |-> "read", overtaken |-> FALSE])
          /\ UNCHANGED <<lastError, rtCache, heap>>

startRtPolling ==
  /\ Len(inflight) < MaxInflight
  /\ Cardinality(DOMAIN timers) < MaxTimers
  /\ IF RT_SOURCE_TYPE = "none"
       THEN UNCHANGED <<pollingInterval, timers, inflight, lastError, rtCache, heap>>
       ELSE LET handle == Fresh(DOMAIN timers)
            IN /\ BeginFetch
               /\ pollingInterval' = Some(handle)
               /\ timers' = [h \in DOMAIN timers \cup {handle} |->
                               IF h = handle THEN GTFS_RT_POLL_SECONDS * 1000
                               ELSE timers[h]]
  /\ UNCHANGED <<app, env, source, held, req, resp>>

stopRtPolling ==
  /\ IF IsSome(pollingInterval)
       THEN /\ timers' = [h \in DOMAIN timers \ {Val(pollingInterval)} |-> timers[h]]
            /\ pollingInterval' = None
       ELSE UNCHANGED <<timers, pollingInterval>>
  /\ UNCHANGED <<app, env, source, rtCache, heap, lastError, inflight, held, req, resp>>

\* the callback of setInterval
TimerFires(handle) ==
  /\ handle \in DOMAIN timers
  /\ Len(inflight) < MaxInflight
  /\ BeginFetch
  /\ UNCHANGED <<app, env, source, pollingInterval, timers, held, req, resp>>

\* await fetch(GTFS_RT_URL, ...) settles: rejected, or a response whose
\* status is checked
FetchSettles(i) ==
  /\ i \in 1..Len(inflight)
  /\ inflight[i].pc = "fetch"
  /\ \/ /\ source.kind = "failing"
        /\ \/ CatchError("fetch failed")
           \/ CatchError("HTTP 503 Service Unavailable")
        /\ inflight' = AfterCycle(inflight, i, FALSE)
     \/ /\ inflight' = [inflight EXCEPT ![i].pc = "body"]
        /\ UNCHANGED <<lastError, rtCache, heap>>
  /\ UNCHANGED <<app, env, source, pollingInterval, timers, held, req, resp>>

\* await response.arrayBuffer() settles: rejected, or the bytes of the body,
\* which are what the source serves at this moment
BodySettles(i) ==
  /\ i \in 1..Len(inflight)
  /\ inflight[i].pc = "body"
  /\ \/ /\ source.kind = "failing"
        /\ CatchError("terminated")
     \/ DecodeAndPublish(source)
  /\ inflight' = AfterCycle(inflight, i, rtCache' # rtCache)
  /\ UNCHANGED <<app, env, source, pollingInterval, timers, held, req, resp>>

\* await readFile(GTFS_RT_PATH) settles: rejected, or the bytes of the file
ReadSettles(i) ==
  /\ i \in 1..Len(inflight)
  /\ inflight[i].pc = "read"
  /\ \/ /\ source.kind = "failing"
        /\ \/ CatchError("ENOENT: no such file or directory, open '" \o Val(env.path) \o "'")
           \/ CatchError("EACCES: permission denied, open '" \o Val(env.path) \o "'")
     \/ DecodeAndPublish(source)
  /\ inflight' = AfterCycle(inflight, i, rtCache' # rtCache)
  /\ UNCHANGED <<app, env, source, pollingInterval, timers, held, req, resp>>

\* the source changes its condition or its content
SourceChanges ==
  /\ source' \in Sources \ {source}
  /\ UNCHANGED <<app, env, rtCache, heap, lastError, pollingInterval, timers,
                 inflight, held, req, resp>>

\* a request handler calls getRtCache() and keeps the reference
getRtCache ==
  /\ held' = rtCache
  /\ held' # held
  /\ heap' = [r \in OptSet(rtCache) |-> heap[r]]
  /\ UNCHANGED <<app, env, source, rtCache, lastError, pollingInterval, timers,
                 inflight, req, resp>>

Next ==
  \/ startRtPolling
  \/ stopRtPolling
  \/ \E h \in DOMAIN timers : TimerFires(h)
  \/ \E i \in 1..Len(inflight) : FetchSettles(i)
  \/ \E i \in 1..Len(inflight) : BodySettles(i)
  \/ \E i \in 1..Len(inflight) : ReadSettles(i)
  \/ SourceChanges
  \/ getRtCache

Spec == Init /\ [][Next]_vars

\* the timers fire and the suspended fetches settle
FairSpec ==
  /\ Spec
  /\ WF_vars(\E h \in DOMAIN timers : TimerFires(h))
  /\ WF_vars(\E i \in 1..Len(inflight) : FetchSettles(i))
  /\ WF_vars(\E i \in 1..Len(inflight) : BodySettles(i))
  /\ WF_vars(\E i \in 1..Len(inflight) : ReadSettles(i))

----
(* Properties of the poller                                                *)

\* a step in which a fetch cycle ends in the catch block
CycleFails ==
  /\ IsSome(lastError')
  /\ \/ \E i \in 1..Len(inflight) : FetchSettles(i) /\ Len(inflight') < Len(inflight)
     \/ \E i \in 1..Len(inflight) : BodySettles(i)
     \/ \E i \in 1..Len(inflight) : ReadSettles(i)
     \/ (\E h \in DOMAIN timers : TimerFires(h)) /\ inflight' = inflight
     \/ startRtPolling /\ inflight' = inflight /\ IsSome(pollingInterval')

\* a step that stops no timer and changes no interval
TimersKeepRunning ==
  /\ \A h \in DOMAIN timers : h \in DOMAIN timers' /\ timers'[h] = timers[h]
  /\ IsSome(pollingInterval) => IsSome(pollingInterval')

\* a step in which fetchRtFeed() is called
FetchBegins ==
  \/ Len(inflight') > Len(inflight)
  \/ /\ inflight' = inflight
     /\ IsSome(lastError')
     /\ \/ \E h \in DOMAIN timers : TimerFires(h)
        \/ startRtPolling /\ IsSome(pollingInterval')

\* C1: a fetch cycle that fails leaves the published snapshot in place (same
\* object, same contents), records a non-empty error message, leaves the timers
\* running, and every timer tick that follows begins a new fetch.
C1_FailedFetchKeepsCache ==
  /\ [][CycleFails =>
          /\ rtCache' = rtCache
          /\ IsSome(rtCache) => heap'[Val(rtCache)] = heap[Val(rtCache)]
          /\ Val(lastError') # ""
          /\ TimersKeepRunning]_vars
  /\ [][\A h \in DOMAIN timers : TimerFires(h) => FetchBegins]_vars
  /\ [](\A h \in DOMAIN timers : Len(inflight) < MaxInflight => ENABLED TimerFires(h))

C1_Witness ==
  /\ IsSome(rtCache)
  /\ IsSome(lastError)
  /\ IsSome(pollingInterval)
  /\ inflight # <<>>

\* C2: what getRtCache() returns is null or one complete snapshot, all of whose
\* indexes and counts were built from one decoded feed; a snapshot never
\* changes once it is on the heap, and a reference a reader holds stays valid.
C2_SnapshotsCompleteAndImmutable ==
  /\ [](/\ OptSet(rtCache) \cup OptSet(held) = DOMAIN heap
        /\ \A r \in DOMAIN heap :
             \E f \in DOMAIN Feeds : heap[r] = CacheOfFeed[f])
  /\ [][\A r \in (DOMAIN heap) \cap (DOMAIN heap') : heap'[r] = heap[r]]_vars
  /\ [][IsSome(held) /\ held' = held => heap'[Val(held)] = heap[Val(held)]]_vars

C2_Witness ==
  /\ IsSome(rtCache)
  /\ IsSome(held)
  /\ held # rtCache
  /\ heap[Val(held)] # heap[Val(rtCache)]
  /\ inflight # <<>>

\* the source serves feed f and the poller is started
SourceStable(f) ==
  /\ source = [kind |-> "good", feed |-> f]
  /\ IsSome(pollingInterval)

\* the cache holds the snapshot of feed f and no error is recorded
Recovered(f) ==
  /\ lastError = None
  /\ IsSome(rtCache)
  /\ heap[Val(rtCache)] = CacheOfFeed[f]

\* C3: a failed cycle stops no timer and changes no interval, and if from some
\* moment on the poller stays started and the source serves a decodable feed,
\* then from some moment on the cache holds that feed and no error is recorded.
C3_PollerRecovers ==
  /\ [][CycleFails => TimersKeepRunning]_vars
  /\ [](\A h \in DOMAIN timers : timers[h] = GTFS_RT_POLL_SECONDS * 1000)
  /\ \A f \in 1..MaxPollFeeds : <>[]SourceStable(f) => <>[]Recovered(f)

C3_Witness ==
  /\ IsSome(lastError)
  /\ IsSome(rtCache)
  /\ \E f \in 1..MaxPollFeeds :
       /\ SourceStable(f)
       /\ heap[Val(rtCache)] # CacheOfFeed[f]
  /\ inflight # <<>>

\* C4: stopRtPolling() leaves no timer active and leaves the cache and the
\* error as they are, and while the poller is stopped no fetch begins unless
\* startRtPolling() is called.
C4_StopEndsAllPolling ==
  /\ [][stopRtPolling =>
          /\ DOMAIN timers' = {}
          /\ UNCHANGED <<rtCache, heap, lastError>>]_vars
  /\ [][pollingInterval = None /\ FetchBegins => startRtPolling]_vars

----
(* Requests                                                                *)

\* a server that published Feeds[f] (f = 0: no source is configured and there
\* is no cache) receives one request
NextInit ==
  /\ \E f \in 0..Len(Feeds) :
       IF f = 0
         THEN /\ env = [url |-> None, path |-> None]
              /\ source = [kind |-> "failing", feed |-> 0]
              /\ rtCache = None
              /\ heap = <<>>
              /\ pollingInterval = None
              /\ timers = <<>>
         ELSE /\ env = [url |-> Some(UrlValue), path |-> None]
              /\ source = [kind |-> "good", feed |-> f]
              /\ rtCache = Some(1)
              /\ heap = <<CacheOfFeed[f]>>
              /\ pollingInterval = Some(1)
              /\ timers = <<GTFS_RT_POLL_SECONDS * 1000>>
  /\ lastError = None
  /\ inflight = <<>>
  /\ held = None
  /\ app = AppStart
  /\ req \in {Some(r) : r \in Requests}
  /\ resp = None

\* router.get('/:stopId/next'): the handler runs without suspension
HandleNext ==
  /\ IsSome(req)
  /\ resp = None
  /\ resp' = Some(NextResponse(IF IsSome(rtCache) THEN Some(heap[Val(rtCache)]) ELSE None,
                                Val(req)))
  /\ UNCHANGED <<app, env, source, rtCache, heap, lastError, pollingInterval, timers,
                 inflight, held, req>>

SpecNext == NextInit /\ [][HandleNext]_vars

----
(* Properties of the estimator                                             *)

\* the request and the response of a state in which the handler has answered
Answered == IsSome(req) /\ IsSome(resp)

TheCache == heap[Val(rtCache)]

\* the row of the k-th candidate that passed the two filters
RowAfter(k) == Val(req).allCandidates[Val(resp).after[k]]

Theoretical(k) == timeToSeconds(RowAfter(k).departure_time)

NowSeconds == LocalSeconds(Val(req).now)

\* the cache has no trip update under any key of the trip id of row c and no
\* update of its route and stop within 900 s of its theoretical time
NoMatchFor(c) ==
  /\ c.trip_id \notin DOMAIN TheCache.data
  /\ normalizeTripId(c.trip_id) \notin DOMAIN TheCache.dataByNormalizedId
  /\ \A key \in DOMAIN TheCache.dataByFuzzyKey : createFuzzyKey(c.trip_id) # Some(key)
  /\ \A key \in DOMAIN TheCache.dataByRouteStop :
       key = createRouteStopKey(Val(req).routeId, c.stop_id) =>
         \A i \in 1..Len(TheCache.dataByRouteStop[key]) :
           Abs(TheCache.dataByRouteStop[key][i].departureEpoch
                 - (LocalMidnight(Val(req).now) + timeToSeconds(c.departure_time))) > 900

\* every departure of the list is the theoretical one of its candidate
AllTheoretical(departures) ==
  \A i \in 1..Len(departures) :
    /\ departures[i].realtime = FALSE
    /\ departures[i].delayMinutes = None
    /\ departures[i].final = timeToSeconds(Val(req).allCandidates[departures[i].cand].departure_time)
    /\ departures[i].minutes = RoundDiv60(departures[i].final - NowSeconds)

\* C5: with no cache, and with a cache that has no match for any candidate,
\* the departures are the same list: the theoretical departures, not realtime,
\* without delayMinutes; also for trip ids that do not have the five segments.
C5_NoCacheSameAsNoMatch ==
  Answered =>
    /\ rtCache = None => AllTheoretical(Val(resp).departures)
    /\ (IsSome(rtCache) /\ \A k \in 1..Len(Val(resp).after) : NoMatchFor(RowAfter(k))) =>
         /\ AllTheoretical(Val(resp).departures)
         /\ Val(resp).departures = NextResponse(None, Val(req)).departures

C5_Witness ==
  /\ Answered
  /\ IsSome(rtCache)
  /\ \A k \in 1..Len(Val(resp).after) : NoMatchFor(RowAfter(k))
  /\ Len(Val(resp).departures) >= 3
  /\ \E i, j \in 1..Len(Val(resp).departures) :
       /\ Val(req).allCandidates[Val(resp).departures[i].cand].trip_id = T_PLAIN
       /\ parseTripIdComponents(Val(req).allCandidates[Val(resp).departures[j].cand].trip_id)
            # None

\* C6: the trip update the estimator uses is the one under the raw id if there
\* is one, else the one under the normalized id if there is one, else the one
\* under the fuzzy key if the key is defined and present, else none.
C6_TripLookupPriority ==
  (Answered /\ IsSome(rtCache)) =>
    \A k \in 1..Len(Val(resp).after) :
      LET t    == RowAfter(k).trip_id
          used == Val(resp).estimates[k].trip
          raw  == t \in DOMAIN TheCache.data
          norm == normalizeTripId(t) \in DOMAIN TheCache.dataByNormalizedId
          fuzz == /\ createFuzzyKey(t) # None
                  /\ Val(createFuzzyKey(t)) \in DOMAIN TheCache.dataByFuzzyKey
      IN /\ raw => used = Some(TheCache.data[t].ent)
         /\ (~raw /\ norm) => used = Some(TheCache.dataByNormalizedId[normalizeTripId(t)].ent)
         /\ (~raw /\ ~norm /\ fuzz) =>
              used = Some(TheCache.dataByFuzzyKey[Val(createFuzzyKey(t))].ent)
         /\ (~raw /\ ~norm /\ ~fuzz) => used = None

\* a raw hit although the normalized id leads to another trip update, and a
\* normalized hit although the fuzzy key leads to another one
C6_Witness ==
  /\ Answered
  /\ IsSome(rtCache)
  /\ \E k \in 1..Len(Val(resp).after) :
       /\ RowAfter(k).trip_id \in DOMAIN TheCache.data
       /\ normalizeTripId(RowAfter(k).trip_id) \in DOMAIN TheCache.dataByNormalizedId
       /\ TheCache.dataByNormalizedId[normalizeTripId(RowAfter(k).trip_id)].ent
            # TheCache.data[RowAfter(k).trip_id].ent
       /\ Val(resp).estimates[k].trip = Some(TheCache.data[RowAfter(k).trip_id].ent)
  /\ \E k \in 1..Len(Val(resp).after) :
       /\ RowAfter(k).trip_id \notin DOMAIN TheCache.data
       /\ normalizeTripId(RowAfter(k).trip_id) \in DOMAIN TheCache.dataByNormalizedId
       /\ createFuzzyKey(RowAfter(k).trip_id) # None
       /\ Val(createFuzzyKey(RowAfter(k).trip_id)) \in DOMAIN TheCache.dataByFuzzyKey
       /\ TheCache.dataByFuzzyKey[Val(createFuzzyKey(RowAfter(k).trip_id))].ent
            # TheCache.dataByNormalizedId[normalizeTripId(RowAfter(k).trip_id)].ent
       /\ Val(resp).estimates[k].trip
            = Some(TheCache.dataByNormalizedId[normalizeTripId(RowAfter(k).trip_id)].ent)

\* the trip update object whose position in the feed is ent
TripOfEnt(ent) ==
  CHOOSE tu \in {TheCache.data[t] : t \in DOMAIN TheCache.data} : tu.ent = ent

\* the stop-level update of trip update tu for row c: the one of its
\* stop_sequence, else the one of its stop_id, else none
StopUpdateFor(tu, c) ==
  IF c.stop_sequence \in DOMAIN tu.stopTimesBySequence
    THEN Some(tu.stopTimesBySequence[c.stop_sequence])
  ELSE IF c.stop_id \in DOMAIN tu.stopTimesByStopId
    THEN Some(tu.stopTimesByStopId[c.stop_id])
  ELSE None

\* the final time that an absolute departure epoch gives
FinalOfEpoch(epoch) ==
  IF LocalSeconds(epoch) < NowSeconds - 3600
    THEN LocalSeconds(epoch) + 86400
    ELSE LocalSeconds(epoch)

\* C7: with a matched trip update, a stop-level update that carries a departure
\* time or delay decides the final time whatever the trip-level delay is, and
\* of the two the absolute departure time decides when both are present.
C7_StopLevelAndAbsoluteTimeWin ==
  (Answered /\ IsSome(rtCache)) =>
    \A k \in 1..Len(Val(resp).after) :
      IsSome(Val(resp).estimates[k].trip) =>
        LET e   == Val(resp).estimates[k]
            stu == StopUpdateFor(TripOfEnt(Val(e.trip)), RowAfter(k))
        IN (IsSome(stu) /\ (IsSome(Val(stu).departureTime) \/ IsSome(Val(stu).departureDelay))) =>
             /\ e.realtime
             /\ IsSome(Val(stu).departureTime) =>
                  /\ e.final = FinalOfEpoch(Val(Val(stu).departureTime))
                  /\ e.delayMinutes = Some(RoundDiv60(e.final - Theoretical(k)))
             /\ ~IsSome(Val(stu).departureTime) =>
                  /\ e.final = Theoretical(k) + Val(Val(stu).departureDelay)
                  /\ e.delayMinutes = Some(RoundDiv60(Val(Val(stu).departureDelay)))

\* a stop-level update with a time and a delay that give different final times,
\* in a trip update whose trip-level delay gives a third one
C7_Witness ==
  /\ Answered
  /\ IsSome(rtCache)
  /\ \E k \in 1..Len(Val(resp).after) :
       /\ IsSome(Val(resp).estimates[k].trip)
       /\ LET e   == Val(resp).estimates[k]
              tu  == TripOfEnt(Val(e.trip))
              stu == StopUpdateFor(tu, RowAfter(k))
          IN /\ IsSome(stu)
             /\ IsSome(tu.delay)
             /\ IsSome(Val(stu).departureTime)
             /\ IsSome(Val(stu).departureDelay)
             /\ e.final # Theoretical(k) + Val(tu.delay)
             /\ e.final # Theoretical(k) + Val(Val(stu).departureDelay)
             /\ e.final = FinalOfEpoch(Val(Val(stu).departureTime))

\* the trip-match step gave no real-time result for the k-th candidate
NoTripResult(k) ==
  LET e == Val(resp).estimates[k]
  IN \/ e.trip = None
     \/ /\ IsSome(e.trip)
        /\ StopUpdateFor(TripOfEnt(Val(e.trip)), RowAfter(k)) = None
        /\ TripOfEnt(Val(e.trip)).delay = None
     \/ /\ IsSome(e.trip)
        /\ IsSome(StopUpdateFor(TripOfEnt(Val(e.trip)), RowAfter(k)))
        /\ Val(StopUpdateFor(TripOfEnt(Val(e.trip)), RowAfter(k))).departureTime = None
        /\ Val(StopUpdateFor(TripOfEnt(Val(e.trip)), RowAfter(k))).departureDelay = None

\* C8: the locator is queried exactly for the candidates for which the
\* trip-match step gave no real-time result, with the route, the stop, local
\* midnight + theoretical seconds and 900 s.
C8_ProximityFallbackWhenNoTripResult ==
  (Answered /\ IsSome(rtCache)) =>
    \A k \in 1..Len(Val(resp).after) :
      /\ NoTripResult(k) <=> IsSome(Val(resp).estimates[k].locator)
      /\ IsSome(Val(resp).estimates[k].locator) =>
           Val(Val(resp).estimates[k].locator) =
             [routeId |-> Val(req).routeId, stopId |-> RowAfter(k).stop_id,
              targetEpoch |-> LocalMidnight(Val(req).now) + Theoretical(k),
              maxDeltaSeconds |-> 900]

\* the positions, in the rows of the request, of the candidates of the list
CandsOf(departures) == {departures[i].cand : i \in 1..Len(departures)}

\* C9: a candidate of an active service is in the list (before truncation)
\* exactly when the rounded minutes to its final time are not negative.
C9_DiscardOnFinalTime ==
  Answered =>
    \A i \in 1..Len(Val(req).allCandidates) :
      Val(req).allCandidates[i].service_id \in Val(req).activeServiceIds =>
        (i \in CandsOf(Val(resp).sorted)
           <=> RoundDiv60(Estimate(IF IsSome(rtCache) THEN Some(TheCache) ELSE None,
                                   Val(req).allCandidates[i], Val(req).routeId,
                                   Val(req).now).final - NowSeconds) >= 0)

\* the limit the parameter asks for: 3 when absent, not a number or 0, else
\* the number clamped to 1..10
AskedLimit(text) ==
  LET asks == (CHOOSE i \in DOMAIN LimitSamples : LimitSamples[i].text = text)
  IN IF LimitSamples[asks].asks = None \/ LimitSamples[asks].asks = Some(0) THEN 3
     ELSE IF Val(LimitSamples[asks].asks) < 1 THEN 1
     ELSE IF Val(LimitSamples[asks].asks) > 10 THEN 10
     ELSE Val(LimitSamples[asks].asks)

\* C10: the departures are in non-decreasing order of minutes, none has
\* negative minutes, and they are at most the effective limit.
C10_SortedNonNegativeLimited ==
  Answered =>
    LET d == Val(resp).departures
    IN /\ \A i \in 1..Len(d) : d[i].minutes >= 0
       /\ \A i \in 1..(Len(d) - 1) : d[i].minutes <= d[i + 1].minutes
       /\ Len(d) <= AskedLimit(Val(req).limitParam)
       /\ Val(resp).limit = AskedLimit(Val(req).limitParam)
       /\ Len(d) = Min(Len(Val(resp).sorted), AskedLimit(Val(req).limitParam))

\* a list that the sort reordered and the limit cut
C10_Witness ==
  /\ Answered
  /\ Len(Val(resp).departures) = 2
  /\ Len(Val(resp).sorted) = 3
  /\ Val(resp).departures[1].cand > Val(resp).departures[2].cand
  /\ Val(resp).departures[1].minutes < Val(resp).departures[2].minutes

----
(* Requests around midnight                                                *)

T7_1B5_235000 == <<"7", "_", "1", "_", "B", "_", "5", "_", "2", "3", "5", "0", "0", "0">>

\* the moments of the requests: 23:40:00, 23:49:30, 23:58:00 and 00:03:00 of
\* the next day
NightNows == {At(23, 40, 0), At(23, 49, 30), At(23, 58, 0), At(24, 3, 0)}

\* the absolute departure times of the feed: 22:30, 22:50, 23:49, 23:51 and
\* 00:02, 00:10 of the next day
NightEpochs == {At(22, 30, 0), At(22, 50, 0), At(23, 49, 0), At(23, 51, 0),
                At(24, 2, 0), At(24, 10, 0)}

\* the departure_time of the row of the schedule
NightRows ==
  {Row(T7_1B5_235000, "SV1", 23, 50, 0, S_S1, 3),
   Row(T7_1B5_235000, "SV1", 23, 55, 0, S_S1, 3),
   Row(T7_1B5_235000, "SV1", 24, 5, 0, S_S1, 3)}

\* the feed with one stop-level update of that trip: an absolute departure
\* time and a delay
NightFeed(epoch) == [entity |-> <<
  FeedTrip(Some(T7_1B5_235000), Some(R_B), None,
           <<FeedStu(Some(S_S1), Some(3), None, Event(Some(epoch), Some(60)))>>) >>]

\* a server that published NightFeed(epoch) receives one request
NightInit ==
  /\ env = [url |-> Some(UrlValue), path |-> None]
  /\ source = [kind |-> "good", feed |-> 1]
  /\ rtCache = Some(1)
  /\ \E epoch \in NightEpochs : heap = <<NewCache(NightFeed(epoch), DateNowMs)>>
  /\ pollingInterval = Some(1)
  /\ timers = <<GTFS_RT_POLL_SECONDS * 1000>>
  /\ lastError = None
  /\ inflight = <<>>
  /\ held = None
  /\ app = AppStart
  /\ req \in {Some([now |-> n, routeId |-> R_B, limitParam |-> None,
                    activeServiceIds |-> {"SV1"}, allCandidates |-> <<row>>]) :
                n \in NightNows, row \in NightRows}
  /\ resp = None

SpecNight == NightInit /\ [][HandleNext]_vars

\* seconds from the local midnight before it to the departure epoch of the
\* stop-level update the k-th estimate used
RtSecondsOf(k) ==
  (Val(TheCache.data[RowAfter(k).trip_id].stopTimesBySequence[RowAfter(k).stop_sequence]
         .departureTime) - TodayStartEpoch) % 86400

\* C11: an absolute departure epoch becomes local seconds since midnight,
\* shifted by 24 h when that is more than one hour before now; the delay is
\* the rounded difference to the theoretical time. Theoretical 23:50:00 with
\* real time 00:02:00 and now 23:49:30 gives 24:02:00, 12 minutes of delay and
\* minutes that are not negative.
C11_MidnightRollover ==
  Answered =>
    \A k \in 1..Len(Val(resp).after) :
      LET e == Val(resp).estimates[k]
      IN /\ e.realtime
         /\ e.final = IF RtSecondsOf(k) < NowSeconds - 3600
                        THEN RtSecondsOf(k) + 86400 ELSE RtSecondsOf(k)
         /\ e.delayMinutes = Some(RoundDiv60(e.final - Theoretical(k)))
         /\ (/\ Theoretical(k) = 23 * 3600 + 50 * 60
             /\ RtSecondsOf(k) = 120
             /\ NowSeconds = 23 * 3600 + 49 * 60 + 30) =>
              /\ e.final = 24 * 3600 + 120
              /\ e.delayMinutes = Some(12)
              /\ Len(Val(resp).departures) = 1
              /\ Val(resp).departures[1].minutes >= 0

C11_Witness ==
  /\ Answered
  /\ Len(Val(resp).departures) = 1
  /\ Val(resp).departures[1].final = 24 * 3600 + 120
  /\ Val(resp).departures[1].delayMinutes = Some(12)
  /\ Val(resp).departures[1].realtime
  /\ Theoretical(1) = 23 * 3600 + 50 * 60
  /\ NowSeconds = 23 * 3600 + 49 * 60 + 30

----
(* A poll followed by a request                                            *)

\* requests for one row of the schedule
RowRequests ==
  [now : NowValues, routeId : {R_B}, limitParam : {None},
   activeServiceIds : {{"SV1"}},
   allCandidates : {<<Pool[i]>> : i \in DOMAIN Pool}]

\* a server whose source serves one of the feeds, before startRtPolling(), and
\* a request that arrives at some moment
PollInit ==
  /\ env = [url |-> Some(UrlValue), path |-> None]
  /\ source \in {[kind |-> "good", feed |-> f] : f \in DOMAIN Feeds}
  /\ rtCache = None
  /\ heap = <<>>
  /\ lastError = None
  /\ pollingInterval = None
  /\ timers = <<>>
  /\ inflight = <<>>
  /\ held = None
  /\ app = AppStart
  /\ req \in {Some(r) : r \in RowRequests}
  /\ resp = None

PollNext ==
  \/ startRtPolling
  \/ \E i \in 1..Len(inflight) : FetchSettles(i)
  \/ \E i \in 1..Len(inflight) : BodySettles(i)
  \/ HandleNext

SpecPollNext == PollInit /\ [][PollNext]_vars

\* the trip updates of the feed the source serves
PolledEntities == Feeds[source.feed].entity

\* entity E is a trip update whose trip id differs from the trip id of row c
\* in the first segment only
DiffersInFirstSegment(E, c) ==
  /\ IsSome(E.tripUpdate)
  /\ IsSome(Val(E.tripUpdate).trip)
  /\ IsSome(Val(Val(E.tripUpdate).trip).tripId)
  /\ LET id == Val(Val(Val(E.tripUpdate).trip).tripId)
     IN /\ id # c.trip_id
        /\ \E i \in 1..Len(id), j \in 1..Len(c.trip_id) :
             /\ id[i] = "_"
             /\ c.trip_id[j] = "_"
             /\ \A x \in 1..(i - 1) : id[x] # "_"
             /\ \A x \in 1..(j - 1) : c.trip_id[x] # "_"
             /\ SubSeq(id, i, Len(id)) = SubSeq(c.trip_id, j, Len(c.trip_id))

\* the stop-time updates of entity E for the stop of row c that carry a
\* departure delay and no departure time
DelayOnlyUpdates(E, c) ==
  {i \in 1..Len(Val(E.tripUpdate).stopTimeUpdate) :
     /\ Val(E.tripUpdate).stopTimeUpdate[i].stopId = Some(c.stop_id)
     /\ IsSome(Val(E.tripUpdate).stopTimeUpdate[i].departure)
     /\ Val(Val(E.tripUpdate).stopTimeUpdate[i].departure).time = None
     /\ IsSome(Val(Val(E.tripUpdate).stopTimeUpdate[i].departure).delay)}

DelayOf(E, i) == Val(Val(Val(E.tripUpdate).stopTimeUpdate[i].departure).delay)

\* the estimate reports the delay of d seconds
ReportsDelay(e, d) ==
  /\ e.realtime
  /\ e.final = e.theoretical + d
  /\ e.delayMinutes = Some(RoundDiv60(d))

\* the response was computed from the cache of the polled feed
AnsweredFromPoll ==
  /\ Answered
  /\ IsSome(rtCache)
  /\ Val(resp).rtAgeSeconds # None

\* C12 as stated: whenever a trip update of the polled feed differs from the
\* candidate in the first segment of the trip id only and has a delay-only
\* update for the stop of the candidate, the estimate reports that delay.
C12_AnyTripUpdateOfTheNormalizedId ==
  AnsweredFromPoll =>
    \A k \in 1..Len(Val(resp).after) :
      \A n \in 1..Len(PolledEntities) :
        DiffersInFirstSegment(PolledEntities[n], RowAfter(k)) =>
          \A i \in DelayOnlyUpdates(PolledEntities[n], RowAfter(k)) :
            ReportsDelay(Val(resp).estimates[k], DelayOf(PolledEntities[n], i))

\* entity n is the one the normalized index leads to for row c: no trip update
\* of the feed has the raw id of c, and no later one has the normalized id
ResolvedByNormalizedId(n, c) ==
  /\ DiffersInFirstSegment(PolledEntities[n], c)
  /\ \A m \in 1..Len(PolledEntities) :
       /\ IsSome(PolledEntities[m].tripUpdate)
       /\ IsSome(Val(PolledEntities[m].tripUpdate).trip)
       => Val(Val(PolledEntities[m].tripUpdate).trip).tripId # Some(c.trip_id)
  /\ \A m \in (n + 1)..Len(PolledEntities) :
       ~DiffersInFirstSegment(PolledEntities[m], c)

\* update i is the one the trip update of E keeps for row c: the last with the
\* stop_sequence of c, or when there is none the last with its stop id
KeptUpdate(E, i, c) ==
  LET stus  == Val(E.tripUpdate).stopTimeUpdate
      bySeq == {x \in 1..Len(stus) : stus[x].stopSequence = Some(c.stop_sequence)}
      bySid == {x \in 1..Len(stus) : stus[x].stopId = Some(c.stop_id)}
  IN IF bySeq # {} THEN \A x \in bySeq : x <= i /\ i \in bySeq
     ELSE i \in bySid /\ \A x \in bySid : x <= i

\* C12: when the normalized index leads to a trip update of the polled feed
\* that differs from the candidate in the first segment only, and the update
\* it keeps for the candidate carries only a departure delay of d seconds, the
\* estimate is realtime with final = theoretical + d and round(d/60) minutes.
C12_NormalizedMatchEndToEnd ==
  AnsweredFromPoll =>
    \A k \in 1..Len(Val(resp).after) :
      \A n \in 1..Len(PolledEntities) :
        ResolvedByNormalizedId(n, RowAfter(k)) =>
          \A i \in DelayOnlyUpdates(PolledEntities[n], RowAfter(k)) :
            KeptUpdate(PolledEntities[n], i, RowAfter(k)) =>
              ReportsDelay(Val(resp).estimates[k], DelayOf(PolledEntities[n], i))

\* feed trip 9_1_B_5_144800 with +120 s at S1, candidate 7_1_B_5_144800
\* scheduled 14:48:00: 14:50:00 and 2 minutes
C12_Witness ==
  /\ AnsweredFromPoll
  /\ source.feed = 1
  /\ Val(req).allCandidates[1].trip_id = T7_1B5_144800
  /\ Val(req).allCandidates[1].stop_id = S_S1
  /\ ResolvedByNormalizedId(1, Val(req).allCandidates[1])
  /\ DelayOnlyUpdates(PolledEntities[1], Val(req).allCandidates[1]) = {1}
  /\ Len(Val(resp).departures) = 1
  /\ Val(resp).departures[1].realtime
  /\ Val(resp).departures[1].delayMinutes = Some(2)
  /\ Val(resp).departures[1].final = 14 * 3600 + 50 * 60
  /\ Val(resp).departures[1].time = <<"1", "4", ":", "5", "0">>

----
(* Calls of findClosestRtUpdate                                            *)

\* the module just loaded: no source, no cache, no timer
Unstarted ==
  /\ env = [url |-> None, path |-> None]
  /\ source = [kind |-> "failing", feed |-> 0]
  /\ rtCache = None
  /\ heap = <<>>
  /\ lastError = None
  /\ pollingInterval = None
  /\ timers = <<>>
  /\ inflight = <<>>
  /\ held = None
  /\ app = AppStart

\* the departure epochs of the lists are 14:50:00 + 300 * j, j in 0..MaxSlot
MaxSlot == 4

\* the lists have at most MaxUpdates elements
MaxUpdates == 4

\* the non-decreasing sequences of slots of length n
RECURSIVE SortedSlots(_)
SortedSlots(n) ==
  IF n = 0 THEN {<<>>}
  ELSE {Append(q, j) : q \in SortedSlots(n - 1), j \in 0..MaxSlot}
         \cap {q \in [1..n -> 0..MaxSlot] : \A i \in 1..(n - 1) : q[i] <= q[i + 1]}

\* the list of StopTimeUpdateWithEpoch of a sequence of slots; src tells the
\* elements apart
UpdatesOfSlots(q) ==
  [i \in 1..Len(q) |->
     [arrivalTime |-> None, arrivalDelay |-> None,
      departureTime |-> Some(At(14, 50, 0) + 300 * q[i]), departureDelay |-> None,
      src |-> <<1, i>>, departureEpoch |-> At(14, 50, 0) + 300 * q[i]]]

\* the target epochs: every 150 s from 14:30:00 to 20 minutes past the last slot
LocatorTargets == {At(14, 30, 0) + 150 * t : t \in 0..(2 * MaxSlot + 16)}

LocatorCalls ==
  [updates : {None} \cup {Some(UpdatesOfSlots(q)) :
                            q \in UNION {SortedSlots(n) : n \in 0..MaxUpdates}},
   targetEpoch : LocatorTargets,
   maxDeltaSeconds : {0, 150, 900}]

LocatorInit ==
  /\ Unstarted
  /\ req \in {Some(c) : c \in LocatorCalls}
  /\ resp = None

\* the cache whose dataByRouteStop has the list under the key of route B and
\* stop S1, or has no such key
CacheWithList(updates) ==
  [dataByRouteStop |->
     IF updates = None THEN <<>>
     ELSE MapSet(<<>>, createRouteStopKey(R_B, S_S1), Val(updates))]

\* findClosestRtUpdate(cache, 'B', 'S1', targetEpoch, maxDeltaSeconds)
CallLocator ==
  /\ IsSome(req)
  /\ resp = None
  /\ resp' = Some([value |-> findClosestRtUpdate(CacheWithList(Val(req).updates), R_B, S_S1,
                                                 Val(req).targetEpoch,
                                                 Val(req).maxDeltaSeconds)])
  /\ UNCHANGED <<app, env, source, rtCache, heap, lastError, pollingInterval, timers,
                 inflight, held, req>>

SpecLocator == LocatorInit /\ [][CallLocator]_vars

\* the distance of element i of the list of the call to the target
DistanceAt(i) ==
  IF Val(Val(req).updates)[i].departureEpoch >= Val(req).targetEpoch
    THEN Val(Val(req).updates)[i].departureEpoch - Val(req).targetEpoch
    ELSE Val(req).targetEpoch - Val(Val(req).updates)[i].departureEpoch

\* C13: the locator returns what a scan of the whole list returns: an element
\* at the least distance from the target when that distance is at most
\* maxDeltaSeconds, else null; null for an absent or empty list; a member with
\* the target epoch when the target is a member's epoch and maxDelta is 0.
C13_LocatorEqualsLinearScan ==
  Answered =>
    IF Val(req).updates = None \/ Val(req).updates = Some(<<>>)
      THEN Val(resp).value = None
    ELSE IF \A i \in 1..Len(Val(Val(req).updates)) : DistanceAt(i) > Val(req).maxDeltaSeconds
      THEN Val(resp).value = None
    ELSE /\ IsSome(Val(resp).value)
         /\ \E i \in 1..Len(Val(Val(req).updates)) :
              /\ Val(Val(resp).value) = Val(Val(req).updates)[i]
              /\ \A j \in 1..Len(Val(Val(req).updates)) : DistanceAt(i) <= DistanceAt(j)
              /\ DistanceAt(i) <= Val(req).maxDeltaSeconds
         /\ (Val(req).maxDeltaSeconds = 0) =>
              Val(Val(resp).value).departureEpoch = Val(req).targetEpoch

\* a list with equal epochs, the target halfway between two members, and the
\* element returned is not the first of the list
C13_Witness ==
  /\ Answered
  /\ IsSome(Val(req).updates)
  /\ Len(Val(Val(req).updates)) = 4
  /\ Val(Val(req).updates)[3].departureEpoch = Val(Val(req).updates)[4].departureEpoch
  /\ Val(Val(req).updates)[1].departureEpoch < Val(Val(req).updates)[2].departureEpoch
  /\ Val(req).targetEpoch - Val(Val(req).updates)[2].departureEpoch = 150
  /\ Val(Val(req).updates)[3].departureEpoch - Val(req).targetEpoch = 150
  /\ Val(req).maxDeltaSeconds = 150
  /\ IsSome(Val(resp).value)
  /\ Val(Val(resp).value).src # <<1, 1>>

----
(* The cache built from a decoded feed                                     *)

\* stop-time updates of the feeds: stop S1, sequence 3, departure at 14:52:00;
\* S1, no sequence, 14:50:30 (the same window of 5 minutes); S1, sequence 3, a
\* delay only; no stop id, sequence 3, 14:51:00; S2, sequence 3, 14:56:00
StuA == FeedStu(Some(S_S1), Some(3), None, Event(Some(At(14, 52, 0)), None))
StuB == FeedStu(Some(S_S1), None, None, Event(Some(At(14, 50, 30)), Some(30)))
StuC == FeedStu(Some(S_S1), Some(3), None, Event(None, Some(60)))
StuD == FeedStu(None, Some(3), None, Event(Some(At(14, 51, 0)), None))
StuE == FeedStu(Some(S_S2), Some(3), None, Event(Some(At(14, 56, 0)), None))

StuLists == {<<>>, <<StuA, StuB>>, <<StuC>>, <<StuD, StuE>>}

\* trip ids: two that share the normalized id and the fuzzy key, one that
\* shares only the fuzzy key, one without fuzzy key, and the empty id
BuildIds == {T7_1B5_144800, T9_1B5_144800, T8_1B6_144900, T_PLAIN, <<>>}

EntityPool ==
  {FeedOther} \cup
  {FeedTrip(Some(id), route, None, stus) :
     id \in BuildIds, route \in {None, Some(R_B)}, stus \in StuLists}

\* a feed has at most MaxEntities entities
MaxEntities == 2

BuildFeeds ==
  {[entity |-> q] : q \in UNION {[1..n -> EntityPool] : n \in 0..MaxEntities}}

\* a fetch cycle of a started poller has received the bytes of a feed
BuildInit ==
  /\ env = [url |-> Some(UrlValue), path |-> None]
  /\ source = [kind |-> "good", feed |-> 0]
  /\ rtCache = None
  /\ heap = <<>>
  /\ lastError = None
  /\ pollingInterval = Some(1)
  /\ timers = <<GTFS_RT_POLL_SECONDS * 1000>>
  /\ inflight = <<>>
  /\ held = None
  /\ app = AppStart
  /\ req \in {Some([feed |-> f]) : f \in BuildFeeds}
  /\ resp = None

\* fetchRtFeed from FeedMessage.decode to lastError = null, for the feed the
\* bytes decode to
BuildAndPublish ==
  /\ IsSome(req)
  /\ resp = None
  /\ rtCache' = Some(Fresh(OptSet(rtCache) \cup OptSet(held)))
  /\ heap' = [r \in {Fresh(OptSet(rtCache) \cup OptSet(held))} |->
                NewCache(Val(req).feed, DateNowMs)]
  /\ lastError' = None
  /\ resp' = Some([value |-> None])
  /\ UNCHANGED <<app, env, source, pollingInterval, timers, inflight, held, req>>

SpecBuild == BuildInit /\ [][BuildAndPublish]_vars

\* the entities of the feed of the cycle
FeedEntities == Val(req).feed.entity

\* the positions of the trip updates with a non-empty trip id
TripEntities ==
  {n \in 1..Len(FeedEntities) :
     /\ IsSome(FeedEntities[n].tripUpdate)
     /\ IsSome(Val(FeedEntities[n].tripUpdate).trip)
     /\ IsSome(Val(Val(FeedEntities[n].tripUpdate).trip).tripId)
     /\ Val(Val(Val(FeedEntities[n].tripUpdate).trip).tripId) # <<>>}

IdOf(n) == Val(Val(Val(FeedEntities[n].tripUpdate).trip).tripId)

RouteOf(n) == Val(Val(FeedEntities[n].tripUpdate).trip).routeId

StusOf(n) == Val(FeedEntities[n].tripUpdate).stopTimeUpdate

\* the part of id after its first "_", or id when it has none
AfterFirstUnderscore(id) ==
  IF \A i \in 1..Len(id) : id[i] # "_" THEN id
  ELSE SubSeq(id, 1 + (CHOOSE i \in 1..Len(id) :
                         id[i] = "_" /\ \A x \in 1..(i - 1) : id[x] # "_"),
              Len(id))

\* the snapshot was published
Published == Answered /\ IsSome(rtCache)

\* the three indexes lead from the keys of entity n to one object, the one
\* built from entity n
ThreeKeysOneObject(n) ==
  /\ IdOf(n) \in DOMAIN TheCache.data
  /\ AfterFirstUnderscore(IdOf(n)) \in DOMAIN TheCache.dataByNormalizedId
  /\ TheCache.data[IdOf(n)].ent = n
  /\ TheCache.data[IdOf(n)].tripId = IdOf(n)
  /\ TheCache.data[IdOf(n)].routeId = RouteOf(n)
  /\ TheCache.dataByNormalizedId[AfterFirstUnderscore(IdOf(n))] = TheCache.data[IdOf(n)]
  /\ IsSome(createFuzzyKey(IdOf(n))) =>
       /\ Val(createFuzzyKey(IdOf(n))) \in DOMAIN TheCache.dataByFuzzyKey
       /\ TheCache.dataByFuzzyKey[Val(createFuzzyKey(IdOf(n)))] = TheCache.data[IdOf(n)]

\* C14 as stated: for every trip update of the feed with a non-empty id the
\* three indexes lead to the same object, built from that entity.
C14_EveryEntityUnderThreeKeys ==
  Published => \A n \in TripEntities : ThreeKeysOneObject(n)

\* no later entity of the feed has the raw id, the normalized id or the fuzzy
\* key of entity n
NoLaterCollision(n) ==
  \A m \in TripEntities :
    m > n =>
      /\ IdOf(m) # IdOf(n)
      /\ AfterFirstUnderscore(IdOf(m)) # AfterFirstUnderscore(IdOf(n))
      /\ IsSome(createFuzzyKey(IdOf(n))) => createFuzzyKey(IdOf(m)) # createFuzzyKey(IdOf(n))

\* C14: the three keys of every trip update with a non-empty id are present,
\* and for a trip update that no later entity shares a key with, the three
\* indexes lead to the same object, built from that entity.
C14_LastEntityUnderThreeKeys ==
  Published =>
    \A n \in TripEntities :
      /\ IdOf(n) \in DOMAIN TheCache.data
      /\ AfterFirstUnderscore(IdOf(n)) \in DOMAIN TheCache.dataByNormalizedId
      /\ IsSome(createFuzzyKey(IdOf(n))) =>
           Val(createFuzzyKey(IdOf(n))) \in DOMAIN TheCache.dataByFuzzyKey
      /\ NoLaterCollision(n) => ThreeKeysOneObject(n)

\* a trip update with stop-time updates and a fuzzy key, after an earlier
\* entity with the same fuzzy key
C14_Witness ==
  /\ Published
  /\ Len(FeedEntities) = 2
  /\ TripEntities = {1, 2}
  /\ IdOf(1) = T8_1B6_144900
  /\ IdOf(2) = T7_1B5_144800
  /\ StusOf(2) = <<StuA, StuB>>
  /\ NoLaterCollision(2)
  /\ ~NoLaterCollision(1)
  /\ TheCache.dataByFuzzyKey[Val(createFuzzyKey(IdOf(1)))].ent = 2
  /\ DOMAIN TheCache.data[IdOf(2)].stopTimesByStopId = {S_S1}


\* the greatest element of a non-empty set of numbers
Last(S) == CHOOSE x \in S : \A y \in S : y <= x

\* the index objects the three trip indexes hold
IndexObjects ==
  {TheCache.data[k] : k \in DOMAIN TheCache.data}
    \cup {TheCache.dataByNormalizedId[k] : k \in DOMAIN TheCache.dataByNormalizedId}
    \cup {TheCache.dataByFuzzyKey[k] : k \in DOMAIN TheCache.dataByFuzzyKey}

\* the positions of the stop-time updates of entity n with stop id sid, and
\* with stop sequence sq
WithStopId(n, sid) == {i \in 1..Len(StusOf(n)) : StusOf(n)[i].stopId = Some(sid)}

WithSequence(n, sq) == {i \in 1..Len(StusOf(n)) : StusOf(n)[i].stopSequence = Some(sq)}

\* C15: each key of the raw-id, normalized-id and fuzzy-key index holds the
\* object of the last entity, in feed order, that maps to the key; inside an
\* index object each stop id and each stop sequence holds the last stop-time
\* update of the trip update that carries it.
C15_LastWriteWins ==
  Published =>
    /\ DOMAIN TheCache.data = {IdOf(n) : n \in TripEntities}
    /\ \A k \in DOMAIN TheCache.data :
         TheCache.data[k].ent = Last({n \in TripEntities : IdOf(n) = k})
    /\ DOMAIN TheCache.dataByNormalizedId = {AfterFirstUnderscore(IdOf(n)) : n \in TripEntities}
    /\ \A k \in DOMAIN TheCache.dataByNormalizedId :
         TheCache.dataByNormalizedId[k].ent
           = Last({n \in TripEntities : AfterFirstUnderscore(IdOf(n)) = k})
    /\ DOMAIN TheCache.dataByFuzzyKey
         = {Val(createFuzzyKey(IdOf(n))) : n \in {m \in TripEntities : IsSome(createFuzzyKey(IdOf(m)))}}
    /\ \A k \in DOMAIN TheCache.dataByFuzzyKey :
         TheCache.dataByFuzzyKey[k].ent
           = Last({n \in TripEntities : createFuzzyKey(IdOf(n)) = Some(k)})
    /\ \A x \in IndexObjects :
         /\ x.tripId = IdOf(x.ent)
         /\ DOMAIN x.stopTimesByStopId
              = {sid \in {S_S1, S_S2, S_S9} : WithStopId(x.ent, sid) # {}}
         /\ \A sid \in DOMAIN x.stopTimesByStopId :
              x.stopTimesByStopId[sid].src = <<x.ent, Last(WithStopId(x.ent, sid))>>
         /\ DOMAIN x.stopTimesBySequence
              = {sq \in 0..9 : WithSequence(x.ent, sq) # {}}
         /\ \A sq \in DOMAIN x.stopTimesBySequence :
              x.stopTimesBySequence[sq].src = <<x.ent, Last(WithSequence(x.ent, sq))>>

\* two trip updates that share the normalized id and the fuzzy key; two
\* updates of the first for stop S1, two of the second with sequence 3
C15_Witness ==
  /\ Published
  /\ Len(FeedEntities) = 2
  /\ TripEntities = {1, 2}
  /\ IdOf(1) = T7_1B5_144800
  /\ IdOf(2) = T9_1B5_144800
  /\ StusOf(1) = <<StuA, StuB>>
  /\ StusOf(2) = <<StuD, StuE>>
  /\ TheCache.dataByNormalizedId[AfterFirstUnderscore(IdOf(1))].ent = 2
  /\ TheCache.dataByFuzzyKey[Val(createFuzzyKey(IdOf(1)))].ent = 2
  /\ TheCache.data[IdOf(1)].stopTimesByStopId[S_S1].src = <<1, 2>>
  /\ TheCache.data[IdOf(2)].stopTimesBySequence[3].src = <<2, 2>>


\* C16: every list of dataByRouteStop of a published snapshot is non-empty
\* and in non-decreasing order of departureEpoch.
C16_RouteStopListsSorted ==
  Published =>
    \A k \in DOMAIN TheCache.dataByRouteStop :
      /\ Len(TheCache.dataByRouteStop[k]) >= 1
      /\ \A i \in 1..(Len(TheCache.dataByRouteStop[k]) - 1) :
           TheCache.dataByRouteStop[k][i].departureEpoch
             <= TheCache.dataByRouteStop[k][i + 1].departureEpoch

\* a list of four updates that the feed has in the order 14:52:00, 14:50:30,
\* 14:52:00, 14:50:30
C16_Witness ==
  /\ Published
  /\ Len(FeedEntities) = 2
  /\ TripEntities = {1, 2}
  /\ RouteOf(1) = Some(R_B)
  /\ RouteOf(2) = Some(R_B)
  /\ StusOf(1) = <<StuA, StuB>>
  /\ StusOf(2) = <<StuA, StuB>>
  /\ DOMAIN TheCache.dataByRouteStop = {createRouteStopKey(R_B, S_S1)}
  /\ [i \in 1..4 |-> TheCache.dataByRouteStop[createRouteStopKey(R_B, S_S1)][i].src]
       = <<<<1, 2>>, <<2, 2>>, <<1, 1>>, <<2, 1>>>>

\* the stop-time updates, <<entity, position>>, of a trip update with a
\* non-empty trip id and a route id that carry a stop id and an absolute
\* departure time
DirectUpdates ==
  {p \in TripEntities \X (1..3) :
     /\ p[2] <= Len(StusOf(p[1]))
     /\ IsSome(RouteOf(p[1])) /\ Val(RouteOf(p[1])) # <<>>
     /\ IsSome(StusOf(p[1])[p[2]].stopId) /\ Val(StusOf(p[1])[p[2]].stopId) # <<>>
     /\ IsSome(StusOf(p[1])[p[2]].departure)
     /\ IsSome(Val(StusOf(p[1])[p[2]].departure).time)}

DirectRoute(p) == Val(RouteOf(p[1]))

DirectStop(p) == Val(StusOf(p[1])[p[2]].stopId)

DirectTime(p) == Val(Val(StusOf(p[1])[p[2]].departure).time)

\* routeId_stopId_window, the window being floor(time / 300) * 300
WindowKey(p) ==
  DirectRoute(p) \o <<"_">> \o DirectStop(p) \o <<"_">>
    \o NumToStr((DirectTime(p) \div 300) * 300)

\* the entries of the lists of dataByRouteStop are, one for one, the updates
\* of DirectUpdates, each in the list of its route and stop with its
\* departure time as departureEpoch
ListsHoldDirectUpdates ==
  /\ DOMAIN TheCache.dataByRouteStop
       = {DirectRoute(p) \o <<"_">> \o DirectStop(p) : p \in DirectUpdates}
  /\ \A k \in DOMAIN TheCache.dataByRouteStop :
       /\ \A i \in 1..Len(TheCache.dataByRouteStop[k]) :
            /\ TheCache.dataByRouteStop[k][i].src \in DirectUpdates
            /\ DirectRoute(TheCache.dataByRouteStop[k][i].src)
                 \o <<"_">> \o DirectStop(TheCache.dataByRouteStop[k][i].src) = k
            /\ TheCache.dataByRouteStop[k][i].departureEpoch
                 = DirectTime(TheCache.dataByRouteStop[k][i].src)
            /\ TheCache.dataByRouteStop[k][i].departureTime
                 = Some(DirectTime(TheCache.dataByRouteStop[k][i].src))
       /\ \A i, j \in 1..Len(TheCache.dataByRouteStop[k]) :
            i # j => TheCache.dataByRouteStop[k][i].src # TheCache.dataByRouteStop[k][j].src
       /\ Len(TheCache.dataByRouteStop[k])
            = Cardinality({p \in DirectUpdates :
                             DirectRoute(p) \o <<"_">> \o DirectStop(p) = k})

\* C17 as stated: the lists hold exactly the direct updates, and each of them
\* is the value of dataByRouteStopTime under the key of its route, stop and
\* window.
C17_EveryDirectUpdateInBothIndexes ==
  Published =>
    /\ ListsHoldDirectUpdates
    /\ DOMAIN TheCache.dataByRouteStopTime = {WindowKey(p) : p \in DirectUpdates}
    /\ \A p \in DirectUpdates : TheCache.dataByRouteStopTime[WindowKey(p)].src = p

\* p comes before q in the feed
Before(p, q) == p[1] < q[1] \/ (p[1] = q[1] /\ p[2] < q[2])

\* C17: the lists hold exactly the direct updates, one entry for each; the
\* keys of dataByRouteStopTime are the keys of the direct updates, and each
\* key holds the last direct update of the feed that has the key.
C17_DirectIndexes ==
  Published =>
    /\ ListsHoldDirectUpdates
    /\ DOMAIN TheCache.dataByRouteStopTime = {WindowKey(p) : p \in DirectUpdates}
    /\ \A k \in DOMAIN TheCache.dataByRouteStopTime :
         /\ TheCache.dataByRouteStopTime[k].src \in DirectUpdates
         /\ WindowKey(TheCache.dataByRouteStopTime[k].src) = k
         /\ \A q \in DirectUpdates :
              WindowKey(q) = k =>
                q = TheCache.dataByRouteStopTime[k].src
                  \/ Before(q, TheCache.dataByRouteStopTime[k].src)

\* updates with and without route, stop id and departure time; two updates in
\* the window of 14:50 and one in the window of 14:55
C17_Witness ==
  /\ Published
  /\ Len(FeedEntities) = 2
  /\ TripEntities = {1, 2}
  /\ RouteOf(1) = Some(R_B)
  /\ RouteOf(2) = Some(R_B)
  /\ StusOf(1) = <<StuA, StuB>>
  /\ StusOf(2) = <<StuD, StuE>>
  /\ DirectUpdates = {<<1, 1>>, <<1, 2>>, <<2, 2>>}
  /\ Cardinality(DOMAIN TheCache.dataByRouteStopTime) = 2
  /\ TheCache.dataByRouteStopTime[WindowKey(<<1, 1>>)].src = <<1, 2>>
  /\ Len(TheCache.dataByRouteStop[createRouteStopKey(R_B, S_S1)]) = 2
  /\ Len(TheCache.dataByRouteStop[createRouteStopKey(R_B, S_S2)]) = 1

----
(* Calls of the trip-identifier functions                                  *)

\* the segments joined by "_"
RECURSIVE JoinSegments(_)
JoinSegments(segs) ==
  IF Len(segs) = 1 THEN segs[1]
  ELSE segs[1] \o <<"_">> \o JoinSegments(Tail(segs))

\* an id has at most MaxSegments segments
MaxSegments == 6

\* ids of one to three segments, empty segments included: "", "7", "_",
\* "7_B", "B__7", ...
ShortIds ==
  {JoinSegments(q) : q \in UNION {[1..n -> {<<>>, <<"7">>, <<"B">>}] : n \in 1..3}}

\* ids of four to MaxSegments segments
LongIds ==
  {JoinSegments(q) :
     q \in UNION {[1..n -> {<<"7">>, <<"1", "4", "4", "8", "0", "0">>}] : n \in 4..MaxSegments}}

\* first segments, service codes, lines, variants and times of the ids of
\* five segments
PrefixPool  == {<<"6">>, <<"7">>, <<>>, <<"x", "7">>}
ServicePool == {<<"1">>, <<"2">>, <<>>, <<"1", "a">>}
LinePool    == {<<"B">>, <<"C">>, <<>>}
VariantPool == {<<"5">>, <<"7">>, <<>>}
TimePool    == {<<"1", "4", "4", "8", "0", "0">>, <<"1", "4", "4", "9", "5", "9">>,
                <<"1", "4", "5", "0", "0", "0">>, <<"9", "9", "6", "1", "0", "0">>,
                <<"1", "4", "4", "8", "0">>, <<"1", "4", "4", "8", "0", "0", "0">>,
                <<"1", "4", "4", "8", "0", "a">>}

ShapedIds ==
  {JoinSegments(<<a, b, c, d, e>>) :
     a \in PrefixPool, b \in ServicePool, c \in LinePool, d \in VariantPool, e \in TimePool}

T_A_B_C == <<"A", "_", "B", "_", "C">>
T_B_C   == <<"B", "_", "C">>

IdStrings == ShortIds \cup LongIds \cup ShapedIds \cup {T_A_B_C, T_PLAIN}

\* the ids given to createFuzzyKey two at a time
FuzzyIds ==
  {JoinSegments(<<a, b, c, d, e>>) :
     a \in {<<"6">>, <<"7">>}, b \in {<<"1">>, <<"2">>}, c \in {<<"B">>, <<"C">>},
     d \in {<<"5">>, <<"7">>},
     e \in {<<"1", "4", "4", "8", "0", "0">>, <<"1", "4", "4", "9", "5", "9">>,
            <<"1", "4", "5", "0", "0", "0">>, <<"9", "9", "6", "1", "0", "0">>}}
  \cup {T_PLAIN, T_A_B_C, <<>>,
        JoinSegments(<<<<"7">>, <<"1">>, <<"B">>, <<"1", "4", "4", "8", "0", "0">>>>),
        JoinSegments(<<<<"x">>, <<"1">>, <<"B">>, <<"5">>, <<"1", "4", "4", "8", "0", "0">>>>),
        JoinSegments(<<<<"7">>, <<"1">>, <<"B">>, <<"5">>, <<"1", "4", "4", "8", "0">>>>)}

\* the ids of a feed of one trip update and of the candidate looked up in
\* its cache; none of them has a fuzzy key
LookupIds ==
  {JoinSegments(q) :
     q \in {<<<<"7">>, <<"1">>, <<"B">>>>, <<<<"6">>, <<"1">>, <<"B">>>>,
            <<<<"1">>, <<"B">>>>, <<<<"9">>, <<"7">>, <<"1">>, <<"B">>>>,
            <<<<"B">>>>, <<<<"x">>, <<"B">>>>}}

IdCalls ==
  {[fn |-> "normalizeTripId", tripId |-> id] : id \in IdStrings}
  \cup {[fn |-> "parseTripIdComponents", tripId |-> id] : id \in IdStrings}
  \cup {[fn |-> "createFuzzyKey", tripId |-> a, other |-> b] : a \in FuzzyIds, b \in FuzzyIds}
  \cup {[fn |-> "lookup", feedId |-> a, tripId |-> b] : a \in LookupIds, b \in LookupIds}

IdsInit ==
  /\ env = [url |-> Some(UrlValue), path |-> None]
  /\ source = [kind |-> "good", feed |-> 0]
  /\ rtCache = None
  /\ heap = <<>>
  /\ lastError = None
  /\ pollingInterval = Some(1)
  /\ timers = <<GTFS_RT_POLL_SECONDS * 1000>>
  /\ inflight = <<>>
  /\ held = None
  /\ app = AppStart
  /\ req \in {Some(c) : c \in IdCalls}
  /\ resp = None

\* normalizeTripId(tripId), and normalizeTripId of what it returned
CallNormalizeTripId ==
  /\ IsSome(req)
  /\ Val(req).fn = "normalizeTripId"
  /\ resp = None
  /\ resp' = Some([value |-> normalizeTripId(Val(req).tripId),
                   again |-> normalizeTripId(normalizeTripId(Val(req).tripId))])
  /\ UNCHANGED <<app, env, source, rtCache, heap, lastError, pollingInterval, timers,
                 inflight, held, req>>

\* parseTripIdComponents(tripId)
CallParseTripIdComponents ==
  /\ IsSome(req)
  /\ Val(req).fn = "parseTripIdComponents"
  /\ resp = None
  /\ resp' = Some([value |-> parseTripIdComponents(Val(req).tripId)])
  /\ UNCHANGED <<app, env, source, rtCache, heap, lastError, pollingInterval, timers,
                 inflight, held, req>>

\* createFuzzyKey(tripId) and createFuzzyKey(other)
CallCreateFuzzyKey ==
  /\ IsSome(req)
  /\ Val(req).fn = "createFuzzyKey"
  /\ resp = None
  /\ resp' = Some([value |-> createFuzzyKey(Val(req).tripId),
                   other |-> createFuzzyKey(Val(req).other)])
  /\ UNCHANGED <<app, env, source, rtCache, heap, lastError, pollingInterval, timers,
                 inflight, held, req>>

\* fetchRtFeed from FeedMessage.decode to lastError = null, for a feed of one
\* trip update whose trip id is feedId
BuildOne ==
  /\ IsSome(req)
  /\ Val(req).fn = "lookup"
  /\ rtCache = None
  /\ rtCache' = Some(Fresh({}))
  /\ heap' = [r \in {Fresh({})} |->
                NewCache([entity |-> <<FeedTrip(Some(Val(req).feedId), None, None, <<>>)>>],
                         DateNowMs)]
  /\ lastError' = None
  /\ UNCHANGED <<app, env, source, pollingInterval, timers, inflight, held, req, resp>>

\* the trip update that the handler of GET /stops/:stopId/next finds for a
\* candidate whose trip_id is tripId
LookUpCandidate ==
  /\ IsSome(req)
  /\ Val(req).fn = "lookup"
  /\ IsSome(rtCache)
  /\ resp = None
  /\ resp' = Some([value |-> LookupTrip(heap[Val(rtCache)], Val(req).tripId)])
  /\ UNCHANGED <<app, env, source, rtCache, heap, lastError, pollingInterval, timers,
                 inflight, held, req>>

IdsNext ==
  \/ CallNormalizeTripId
  \/ CallParseTripIdComponents
  \/ CallCreateFuzzyKey
  \/ BuildOne
  \/ LookUpCandidate

SpecIds == IdsInit /\ [][IdsNext]_vars

\* fn was called and has returned
Returned(fn) == Answered /\ Val(req).fn = fn

\* the number of "_" in id
Underscores(id) == Cardinality({i \in 1..Len(id) : id[i] = "_"})

\* C18: normalizeTripId(raw) is the part of raw after its first "_", and raw
\* when it has none; when raw has two "_" or more, normalizing the result
\* again gives another string; the cache of a feed has the id of a trip
\* update under the id normalized once, and the handler finds it for a
\* candidate exactly when the ids are equal or equal after one normalization.
C18_NormalizeOnce ==
  /\ Returned("normalizeTripId") =>
       /\ Val(resp).value = AfterFirstUnderscore(Val(req).tripId)
       /\ Underscores(Val(req).tripId) = 0 => Val(resp).value = Val(req).tripId
       /\ Val(req).tripId = T_A_B_C => Val(resp).value = T_B_C
       /\ Underscores(Val(req).tripId) >= 2 => Val(resp).again # Val(resp).value
  /\ (IsSome(req) /\ Val(req).fn = "lookup" /\ IsSome(rtCache)) =>
       DOMAIN TheCache.dataByNormalizedId = {AfterFirstUnderscore(Val(req).feedId)}
  /\ Returned("lookup") =>
       (IsSome(Val(resp).value)
          <=> \/ Val(req).tripId = Val(req).feedId
              \/ AfterFirstUnderscore(Val(req).tripId) = AfterFirstUnderscore(Val(req).feedId))

C18_Witness ==
  /\ Returned("normalizeTripId")
  /\ Val(req).tripId = T_A_B_C
  /\ Val(resp).value = T_B_C
  /\ Val(resp).again = <<"C">>

\* a candidate 7_1_B is not matched with the trip update 1_B, which a second
\* normalization of the candidate would match
C18_WitnessLookup ==
  /\ Returned("lookup")
  /\ Val(req).feedId = <<"1", "_", "B">>
  /\ Val(req).tripId = <<"7", "_", "1", "_", "B">>
  /\ Val(resp).value = None

\* the position of the k-th "_" of id
NthUnderscore(id, k) ==
  CHOOSE i \in 1..Len(id) :
    id[i] = "_" /\ Cardinality({j \in 1..(i - 1) : id[j] = "_"}) = k - 1

\* the k-th of the segments that the "_" of id separate
SegmentOf(id, k) ==
  SubSeq(id,
         IF k = 1 THEN 1 ELSE NthUnderscore(id, k - 1) + 1,
         IF k = Underscores(id) + 1 THEN Len(id) ELSE NthUnderscore(id, k) - 1)

DigitString(x) == Len(x) >= 1 /\ \A i \in 1..Len(x) : x[i] \in {Digits[d] : d \in 1..10}

\* five segments: digits, digits, non-empty, non-empty, six digits
WellFormedId(id) ==
  /\ Underscores(id) = 4
  /\ DigitString(SegmentOf(id, 1))
  /\ DigitString(SegmentOf(id, 2))
  /\ Len(SegmentOf(id, 3)) >= 1
  /\ Len(SegmentOf(id, 4)) >= 1
  /\ Len(SegmentOf(id, 5)) = 6
  /\ DigitString(SegmentOf(id, 5))

\* the number that the two digits a and b write
TwoDigits(a, b) == 10 * DigitVal(a) + DigitVal(b)

\* HH * 3600 + MM * 60 + SS of a time HHMMSS
SecondsOfHHMMSS(t) ==
  TwoDigits(t[1], t[2]) * 3600 + TwoDigits(t[3], t[4]) * 60 + TwoDigits(t[5], t[6])

\* C19: parseTripIdComponents returns components exactly for the ids of five
\* segments (digits, digits, non-empty, non-empty, six digits), with
\* serviceCode the second segment, line the third, time the fifth and
\* timeSeconds = HH * 3600 + MM * 60 + SS without range validation; it
\* returns null for every other string.
C19_ParseTripIdComponents ==
  Returned("parseTripIdComponents") =>
    IF WellFormedId(Val(req).tripId)
      THEN /\ IsSome(Val(resp).value)
           /\ Val(Val(resp).value).serviceCode = SegmentOf(Val(req).tripId, 2)
           /\ Val(Val(resp).value).line = SegmentOf(Val(req).tripId, 3)
           /\ Val(Val(resp).value).time = SegmentOf(Val(req).tripId, 5)
           /\ Val(Val(resp).value).timeSeconds
                = SecondsOfHHMMSS(SegmentOf(Val(req).tripId, 5))
      ELSE Val(resp).value = None

\* 7_1_B_5_996100: 99 hours and 61 minutes are taken as they are
C19_Witness ==
  /\ Returned("parseTripIdComponents")
  /\ Val(req).tripId
       = <<"7", "_", "1", "_", "B", "_", "5", "_", "9", "9", "6", "1", "0", "0">>
  /\ Val(resp).value
       = Some([serviceCode |-> <<"1">>, line |-> <<"B">>,
               time |-> <<"9", "9", "6", "1", "0", "0">>,
               timeSeconds |-> 99 * 3600 + 61 * 60])

\* an id of six segments gives null
C19_WitnessNull ==
  /\ Returned("parseTripIdComponents")
  /\ Underscores(Val(req).tripId) = 5
  /\ Val(resp).value = None

\* the 5-minute bucket of a well-formed id
BucketOf(id) == SecondsOfHHMMSS(SegmentOf(id, 5)) \div 300

\* a and b are equal in every segment but the k-th
DifferOnlyInSegment(a, b, k) ==
  /\ SegmentOf(a, k) # SegmentOf(b, k)
  /\ \A x \in (1..5) \ {k} : SegmentOf(a, x) = SegmentOf(b, x)

\* C20: createFuzzyKey returns null exactly for the ids that are not
\* well-formed; two well-formed ids have equal keys if and only if they have
\* the same service code, the same line and the same 5-minute bucket; ids
\* that differ only in the first segment or only in the variant have equal
\* keys, and ids of adjacent buckets have different keys.
C20_FuzzyKeyEquality ==
  Returned("createFuzzyKey") =>
    /\ (Val(resp).value = None) <=> ~WellFormedId(Val(req).tripId)
    /\ (Val(resp).other = None) <=> ~WellFormedId(Val(req).other)
    /\ (WellFormedId(Val(req).tripId) /\ WellFormedId(Val(req).other)) =>
         /\ (Val(resp).value = Val(resp).other)
              <=> /\ SegmentOf(Val(req).tripId, 2) = SegmentOf(Val(req).other, 2)
                  /\ SegmentOf(Val(req).tripId, 3) = SegmentOf(Val(req).other, 3)
                  /\ BucketOf(Val(req).tripId) = BucketOf(Val(req).other)
         /\ DifferOnlyInSegment(Val(req).tripId, Val(req).other, 1)
              => Val(resp).value = Val(resp).other
         /\ DifferOnlyInSegment(Val(req).tripId, Val(req).other, 4)
              => Val(resp).value = Val(resp).other
         /\ BucketOf(Val(req).tripId) + 1 = BucketOf(Val(req).other)
              => Val(resp).value # Val(resp).other

\* 6_1_B_5_144800 and 7_1_B_7_144959 have the key 1_B_53100
C20_Witness ==
  /\ Returned("createFuzzyKey")
  /\ Val(req).tripId = T6_1B5_144800
  /\ Val(req).other
       = <<"7", "_", "1", "_", "B", "_", "7", "_", "1", "4", "4", "9", "5", "9">>
  /\ Val(resp).value = Some(<<"1", "_", "B", "_", "5", "3", "1", "0", "0">>)
  /\ Val(resp).other = Val(resp).value

\* 7_1_B_5_144959 and 7_1_B_5_145000, one second apart, have different keys
C20_WitnessAdjacent ==
  /\ Returned("createFuzzyKey")
  /\ WellFormedId(Val(req).tripId)
  /\ WellFormedId(Val(req).other)
  /\ DifferOnlyInSegment(Val(req).tripId, Val(req).other, 5)
  /\ BucketOf(Val(req).tripId) + 1 = BucketOf(Val(req).other)
  /\ IsSome(Val(resp).value)
  /\ IsSome(Val(resp).other)
  /\ Val(resp).value # Val(resp).other

\* "HH:MM:SS" as seconds since midnight
SecondsOfClock(t) ==
  (10 * DigitVal(t[1]) + DigitVal(t[2])) * 3600
    + (10 * DigitVal(t[4]) + DigitVal(t[5])) * 60
    + (10 * DigitVal(t[7]) + DigitVal(t[8]))

\* C24: a departure is flagged realtime exactly when it has the field
\* delayMinutes, and a departure that is not realtime has the theoretical
\* time of its candidate as final time, with
\* minutes = round((theoretical - nowSeconds) / 60).
C24_RealtimeIffDelayField ==
  Answered =>
    /\ \A k \in 1..Len(Val(resp).estimates) :
         /\ Val(resp).estimates[k].realtime <=> IsSome(Val(resp).estimates[k].delayMinutes)
         /\ ~Val(resp).estimates[k].realtime =>
              Val(resp).estimates[k].final = SecondsOfClock(RowAfter(k).departure_time)
    /\ \A i \in 1..Len(Val(resp).sorted) :
         /\ Val(resp).sorted[i].realtime <=> IsSome(Val(resp).sorted[i].delayMinutes)
         /\ ~Val(resp).sorted[i].realtime =>
              /\ Val(resp).sorted[i].final
                   = SecondsOfClock(Val(req).allCandidates[Val(resp).sorted[i].cand].departure_time)
              /\ Val(resp).sorted[i].minutes
                   = (SecondsOfClock(Val(req).allCandidates[Val(resp).sorted[i].cand].departure_time)
                        - NowSeconds + 30) \div 60
              /\ Val(resp).sorted[i].time
                   = SubSeq(Val(req).allCandidates[Val(resp).sorted[i].cand].departure_time, 1, 5)

\* one response with a departure from a trip-level delay, one from a
\* stop-level update and one without real-time signal
C24_Witness ==
  /\ Answered
  /\ IsSome(rtCache)
  /\ Len(Val(resp).estimates) = 3
  /\ Len(Val(resp).departures) = 3
  /\ \E k \in 1..3 : /\ Val(resp).estimates[k].realtime
                     /\ Val(resp).estimates[k].by = "trip"
  /\ \E k \in 1..3 : /\ Val(resp).estimates[k].realtime
                     /\ Val(resp).estimates[k].by \in {"time", "delay"}
  /\ \E k \in 1..3 : /\ ~Val(resp).estimates[k].realtime
                     /\ IsSome(Val(resp).estimates[k].stu)
  /\ \E i \in 1..3 : /\ ~Val(resp).departures[i].realtime
                     /\ Val(resp).departures[i].delayMinutes = None

\* the estimate of the k-th candidate comes from the update that the locator
\* found
ByProximity(k) ==
  /\ IsSome(Val(resp).estimates[k].locator)
  /\ IsSome(Val(resp).estimates[k].stu)
  /\ Val(resp).estimates[k].realtime

\* C29: in one response, no two candidates are resolved by the proximity
\* fallback to the same stop-time update.
C29_OneCandidatePerUpdate ==
  Answered =>
    \A k1, k2 \in 1..Len(Val(resp).estimates) :
      (k1 # k2 /\ ByProximity(k1) /\ ByProximity(k2))
        => Val(resp).estimates[k1].stu # Val(resp).estimates[k2].stu

----
(* The status of the poller (getRtStatus)                                  *)

\* variant: the status never has the recorded error
RtStatusWithoutError(e, cacheRef, objects, error, nowMs) ==
  IF getSourceType(e) = "none"
    THEN [enabled |-> FALSE, source |-> None, url |-> None, path |-> None,
          lastError |-> None, fetchedAt |-> None, ageSeconds |-> None,
          entityCount |-> None, tripUpdatesCount |-> None]
  ELSE [enabled |-> TRUE,
        source |-> Some(getSourceType(e)),
        url |-> IF getSourceType(e) = "url" THEN e.url ELSE None,
        path |-> IF getSourceType(e) = "file" THEN e.path ELSE None,
        lastError |-> None,
        fetchedAt |-> IF cacheRef = None THEN None ELSE Some(objects[Val(cacheRef)].fetchedAt),
        ageSeconds |-> IF cacheRef = None THEN None
                       ELSE Some((nowMs - objects[Val(cacheRef)].fetchedAt + 500) \div 1000),
        entityCount |-> Some(IF cacheRef = None THEN 0 ELSE objects[Val(cacheRef)].entityCount),
        tripUpdatesCount |->
          Some(IF cacheRef = None THEN 0 ELSE objects[Val(cacheRef)].tripUpdatesCount)]

\* the RtStatusResponse that getRtStatus() builds from process.env, rtCache,
\* lastError and Date.now(); a property the object does not have, or has with
\* the value undefined, is None
RtStatusResponse(e, cacheRef, objects, error, nowMs) ==
  IF getSourceType(e) = "none"
    THEN [enabled |-> FALSE, source |-> None, url |-> None, path |-> None,
          lastError |-> None, fetchedAt |-> None, ageSeconds |-> None,
          entityCount |-> None, tripUpdatesCount |-> None]
  ELSE [enabled |-> TRUE,
        source |-> Some(getSourceType(e)),
        url |-> IF getSourceType(e) = "url" THEN e.url ELSE None,
        path |-> IF getSourceType(e) = "file" THEN e.path ELSE None,
        lastError |-> IF IsSome(error) /\ Val(error) # "" THEN error ELSE None,
        fetchedAt |-> IF cacheRef = None THEN None ELSE Some(objects[Val(cacheRef)].fetchedAt),
        ageSeconds |-> IF cacheRef = None THEN None
                       ELSE Some((nowMs - objects[Val(cacheRef)].fetchedAt + 500) \div 1000),
        entityCount |-> Some(IF cacheRef = None THEN 0 ELSE objects[Val(cacheRef)].entityCount),
        tripUpdatesCount |->
          Some(IF cacheRef = None THEN 0 ELSE objects[Val(cacheRef)].tripUpdatesCount)]

\* getRtStatus() is called and returns
getRtStatus ==
  /\ resp' = Some(RtStatusResponse(env, rtCache, heap, lastError, DateNowMs))
  /\ resp' # resp
  /\ UNCHANGED <<app, env, source, rtCache, heap, lastError, pollingInterval, timers,
                 inflight, held, req>>

\* the poller, and a caller of getRtStatus()
StatusNext ==
  \/ startRtPolling
  \/ stopRtPolling
  \/ \E h \in DOMAIN timers : TimerFires(h)
  \/ \E i \in 1..Len(inflight) : FetchSettles(i)
  \/ \E i \in 1..Len(inflight) : BodySettles(i)
  \/ \E i \in 1..Len(inflight) : ReadSettles(i)
  \/ SourceChanges
  \/ getRtStatus

SpecStatus == Init /\ [][StatusNext]_vars

\* a step in which a fetch cycle of a configured source comes to its end: a
\* suspended cycle leaves inflight, or a cycle begins and fails before its
\* first suspension
CycleEnds ==
  \/ Len(inflight') < Len(inflight)
  \/ /\ RT_SOURCE_TYPE # "none"
     /\ inflight' = inflight
     /\ \/ \E h \in DOMAIN timers : TimerFires(h)
        \/ startRtPolling /\ pollingInterval' # pollingInterval

\* the status tells what the module state is
StatusReflects(status, e, cacheRef, objects, error) ==
  /\ IsSome(status.lastError) <=> IsSome(error)
  /\ IsSome(error) => status.lastError = error
  /\ (status.enabled = FALSE /\ status.source = None)
       <=> (e.url = None /\ e.path = None)
  /\ status.enabled \/ status.source = None
  /\ (status.enabled /\ cacheRef = None) =>
       /\ status.entityCount = Some(0)
       /\ status.tripUpdatesCount = Some(0)
       /\ status.fetchedAt = None
  /\ (status.enabled /\ cacheRef # None) =>
       /\ status.entityCount = Some(objects[Val(cacheRef)].entityCount)
       /\ status.tripUpdatesCount = Some(objects[Val(cacheRef)].tripUpdatesCount)
       /\ status.fetchedAt = Some(objects[Val(cacheRef)].fetchedAt)

C21_WitnessDisabled ==
  /\ IsSome(resp)
  /\ Val(resp).enabled = FALSE
  /\ Val(resp).source = None

----
(* The source of the poller                                                *)

\* the source that the configuration makes active
ActiveSource ==
  IF env.url # None THEN "url"
  ELSE IF env.path # None THEN "file"
  ELSE "none"

\* the source that a suspended fetch cycle is reading
SourceRead(cycle) == IF cycle.pc \in {"fetch", "body"} THEN "url" ELSE "file"

\* C22: the configuration never changes, so one source is active from the
\* start: the URL when there is one, else the file, else none. Every
\* suspended fetch cycle reads the active source, and every error names it.
\* Without a source there is never a timer, a fetch cycle, an error or a
\* cache.
C22_OneSourceFixedAtStartup ==
  /\ [][env' = env]_vars
  /\ [](\A i \in 1..Len(inflight) : SourceRead(inflight[i]) = ActiveSource)
  /\ [][(lastError' # lastError /\ IsSome(lastError')
           /\ SubSeq(Val(lastError'), 1, 4) \in {"File", "ENOE", "EACC"})
          => ActiveSource = "file"]_vars
  /\ [](ActiveSource = "none" =>
          /\ timers = <<>>
          /\ pollingInterval = None
          /\ inflight = <<>>
          /\ lastError = None
          /\ rtCache = None
          /\ heap = <<>>)
  /\ [][ActiveSource = "none" => ~FetchBegins]_vars

\* URL and path are both configured: the cycles fetch the URL
C22_Witness ==
  /\ env.url # None
  /\ env.path # None
  /\ IsSome(pollingInterval)
  /\ Len(inflight) = 2
  /\ inflight[1].pc = "body"
  /\ inflight[2].pc = "fetch"
  /\ IsSome(rtCache)

----
(* Requests for a trip whose updates have a stop id, a stop sequence or    *)
(* both                                                                    *)

\* the stop-time updates of the trip update: the first has a delay of 60 s,
\* the second of 120 s
SeqStus(delay) ==
  {FeedStu(stop, sq, None, Event(None, Some(delay))) :
     stop \in {None, Some(S_S1), Some(S_S2)}, sq \in {None, Some(3), Some(4)}}

SeqFeeds ==
  {[entity |-> <<FeedTrip(Some(T7_1B5_144800), Some(R_B), None, stus)>>] :
     stus \in {<<>>} \cup {<<a>> : a \in SeqStus(60)}
                \cup {<<a, b>> : a \in SeqStus(60), b \in SeqStus(120)}}

\* the row of the trip at S1 or S2, as the third or fourth stop
SeqRows ==
  {Row(T7_1B5_144800, "SV1", 14, 48, 0, stop, sq) : stop \in {S_S1, S_S2}, sq \in {3, 4}}

\* a server that published one of SeqFeeds receives one request
SeqInit ==
  /\ env = [url |-> Some(UrlValue), path |-> None]
  /\ source = [kind |-> "good", feed |-> 1]
  /\ rtCache = Some(1)
  /\ \E f \in SeqFeeds : heap = <<NewCache(f, DateNowMs)>>
  /\ pollingInterval = Some(1)
  /\ timers = <<GTFS_RT_POLL_SECONDS * 1000>>
  /\ lastError = None
  /\ inflight = <<>>
  /\ held = None
  /\ app = AppStart
  /\ req \in {Some([now |-> n, routeId |-> R_B, limitParam |-> None,
                    activeServiceIds |-> {"SV1"}, allCandidates |-> <<row>>]) :
                n \in NowValues, row \in SeqRows}
  /\ resp = None

SpecSeq == SeqInit /\ [][HandleNext]_vars

\* the index object of the trip of the row
SeqTrip == TheCache.data[T7_1B5_144800]

BySequence == SeqTrip.stopTimesBySequence

ByStopId == SeqTrip.stopTimesByStopId

\* C23: when the matched trip update has an entry for the stop_sequence of
\* the candidate, the estimator uses it, whatever entry there is for the
\* stop_id; it uses the entry for the stop_id only when there is none for the
\* stop_sequence.
C23_StopSequenceBeforeStopId ==
  (Answered /\ Len(Val(resp).estimates) = 1) =>
    /\ Val(resp).estimates[1].trip = Some(SeqTrip.ent)
    /\ RowAfter(1).stop_sequence \in DOMAIN BySequence =>
         /\ Val(resp).estimates[1].stu = Some(BySequence[RowAfter(1).stop_sequence].src)
         /\ Val(resp).estimates[1].delayMinutes
              = Some(Val(BySequence[RowAfter(1).stop_sequence].departureDelay) \div 60)
    /\ (RowAfter(1).stop_sequence \notin DOMAIN BySequence
          /\ RowAfter(1).stop_id \in DOMAIN ByStopId) =>
         /\ Val(resp).estimates[1].stu = Some(ByStopId[RowAfter(1).stop_id].src)
         /\ Val(resp).estimates[1].delayMinutes
              = Some(Val(ByStopId[RowAfter(1).stop_id].departureDelay) \div 60)
    /\ (RowAfter(1).stop_sequence \notin DOMAIN BySequence
          /\ RowAfter(1).stop_id \notin DOMAIN ByStopId) =>
         /\ Val(resp).estimates[1].stu = None
         /\ Val(resp).estimates[1].realtime = FALSE

\* the row is the third stop, at S1; the trip update has a delay of 60 s for
\* stop sequence 3 and of 120 s for stop S1: the departure is 1 minute late
C23_Witness ==
  /\ Answered
  /\ Len(Val(resp).estimates) = 1
  /\ RowAfter(1).stop_id = S_S1
  /\ RowAfter(1).stop_sequence = 3
  /\ 3 \in DOMAIN BySequence
  /\ S_S1 \in DOMAIN ByStopId
  /\ BySequence[3].src = <<1, 1>>
  /\ ByStopId[S_S1].src = <<1, 2>>
  /\ Val(resp).estimates[1].stu = Some(<<1, 1>>)
  /\ Val(resp).departures[1].delayMinutes = Some(1)
  /\ Val(resp).departures[1].realtime

----
(* The service day of a request (gtfs/date.ts, getActiveServiceIds)        *)

\* the number of the local calendar day of an instant, day 0 being 1970-01-01
LocalDay(epoch) == (epoch + TzOffsetSeconds) \div 86400

\* Date.prototype.getFullYear, getMonth() + 1 and getDate of local day z
YearOfEra(doe) == (doe - doe \div 1460 + doe \div 36524 - doe \div 146096) \div 365

DayOfYear(doe) ==
  doe - (365 * YearOfEra(doe) + YearOfEra(doe) \div 4 - YearOfEra(doe) \div 100)

MonthOfDay(z) ==
  IF (5 * DayOfYear((z + 719468) % 146097) + 2) \div 153 < 10
    THEN (5 * DayOfYear((z + 719468) % 146097) + 2) \div 153 + 3
    ELSE (5 * DayOfYear((z + 719468) % 146097) + 2) \div 153 - 9

DateOfDay(z) ==
  DayOfYear((z + 719468) % 146097)
    - (153 * ((5 * DayOfYear((z + 719468) % 146097) + 2) \div 153) + 2) \div 5 + 1

FullYearOfDay(z) ==
  YearOfEra((z + 719468) % 146097) + ((z + 719468) \div 146097) * 400
    + (IF MonthOfDay(z) <= 2 THEN 1 ELSE 0)

\* d is the instant at which the Date stands
formatYyyymmddLocal(d) ==
  NumToStr(FullYearOfDay(LocalDay(d))) \o Pad2(MonthOfDay(LocalDay(d)))
    \o Pad2(DateOfDay(LocalDay(d)))

WEEKDAY_MAP ==
  <<"sunday", "monday", "tuesday", "wednesday", "thursday", "friday", "saturday">>

\* WEEKDAY_MAP[d.getDay()]; 1970-01-01 was a Thursday
getWeekdayLocal(d) == WEEKDAY_MAP[((LocalDay(d) + 4) % 7) + 1]

\* 03:00 of the current local day, or of the day before when now is earlier
getServiceDayDateLocal(now) ==
  IF now < LocalMidnight(now) + 3 * 3600
    THEN LocalMidnight(now) - 86400 + 3 * 3600
    ELSE LocalMidnight(now) + 3 * 3600

\* a <= b for two TEXT values made of digits, as SQLite compares them
RECURSIVE TextLessOrEqual(_, _)
TextLessOrEqual(a, b) ==
  IF a = <<>> THEN TRUE
  ELSE IF b = <<>> THEN FALSE
  ELSE IF a[1] = b[1] THEN TextLessOrEqual(Tail(a), Tail(b))
  ELSE DigitVal(a[1]) < DigitVal(b[1])

\* the loop over the rows of calendar_dates of the service date
RECURSIVE ApplyExceptions(_, _, _)
ApplyExceptions(serviceIds, exceptions, i) ==
  IF i > Len(exceptions) THEN serviceIds
  ELSE IF exceptions[i].exception_type = 1
    THEN ApplyExceptions(serviceIds \cup {exceptions[i].service_id}, exceptions, i + 1)
  ELSE IF exceptions[i].exception_type = 2
    THEN ApplyExceptions(serviceIds \ {exceptions[i].service_id}, exceptions, i + 1)
  ELSE ApplyExceptions(serviceIds, exceptions, i + 1)

\* the rows of calendar_dates WHERE date = serviceDate, from row i on
RECURSIVE ExceptionsOn(_, _, _)
ExceptionsOn(rows, serviceDate, i) ==
  IF i > Len(rows) THEN <<>>
  ELSE IF rows[i].date = serviceDate
    THEN <<rows[i]>> \o ExceptionsOn(rows, serviceDate, i + 1)
  ELSE ExceptionsOn(rows, serviceDate, i + 1)

getActiveServiceIds(db, serviceDate, weekday) ==
  ApplyExceptions(
    {db.calendar[i].service_id : i \in
       {j \in 1..Len(db.calendar) :
          /\ weekday \in db.calendar[j].days
          /\ TextLessOrEqual(db.calendar[j].start_date, serviceDate)
          /\ TextLessOrEqual(serviceDate, db.calendar[j].end_date)}},
    ExceptionsOn(db.calendar_dates, serviceDate, 1), 1)

\* the response with the fields of the debug object that tell the service day
WithServiceDay(response, serviceDate, weekday, activeServiceIds) ==
  [departures |-> response.departures, rtAgeSeconds |-> response.rtAgeSeconds,
   limit |-> response.limit, sorted |-> response.sorted,
   estimates |-> response.estimates, after |-> response.after,
   serviceDateUsed |-> serviceDate, weekdayUsed |-> weekday,
   activeServiceIds |-> activeServiceIds]

\* the handler from "const now = new Date()" on, for a request r that has the
\* rows of calendar and calendar_dates instead of the active services
DayResponse(rtCacheObj, r, activeServiceIds) ==
  WithServiceDay(
    NextResponse(rtCacheObj,
                 [now |-> r.now, routeId |-> r.routeId, limitParam |-> r.limitParam,
                  activeServiceIds |-> activeServiceIds,
                  allCandidates |-> r.allCandidates]),
    formatYyyymmddLocal(getServiceDayDateLocal(r.now)),
    getWeekdayLocal(getServiceDayDateLocal(r.now)),
    activeServiceIds)

D20240101 == <<"2", "0", "2", "4", "0", "1", "0", "1">>
D20241003 == <<"2", "0", "2", "4", "1", "0", "0", "3">>
D20241004 == <<"2", "0", "2", "4", "1", "0", "0", "4">>
D20241231 == <<"2", "0", "2", "4", "1", "2", "3", "1">>

\* THU runs on Thursdays, FRI on Fridays, OLD every day until 2024-10-03
CalendarRows == <<
  [service_id |-> "THU", days |-> {"thursday"},
   start_date |-> D20240101, end_date |-> D20241231],
  [service_id |-> "FRI", days |-> {"friday"},
   start_date |-> D20240101, end_date |-> D20241231],
  [service_id |-> "OLD", days |-> {WEEKDAY_MAP[i] : i \in 1..7},
   start_date |-> D20240101, end_date |-> D20241003] >>

\* without exceptions, or with OLD removed on 2024-10-03 and added on
\* 2024-10-04
Databases ==
  {[calendar |-> CalendarRows, calendar_dates |-> x] :
     x \in {<<>>,
            <<[service_id |-> "OLD", date |-> D20241003, exception_type |-> 2],
              [service_id |-> "OLD", date |-> D20241004, exception_type |-> 1]>>}}

\* rows of stop_times for route B at S1, in the order of departure_time
DayPool == <<
  Row(T7_1B5_144800, "FRI", 1, 30, 0, S_S1, 3),
  Row(T7_1B5_144800, "THU", 8, 0, 0, S_S1, 3),
  Row(T7_1B5_144800, "FRI", 9, 0, 0, S_S1, 3),
  Row(T7_1B5_144800, "THU", 23, 55, 0, S_S1, 3),
  Row(T7_1B5_144800, "THU", 24, 10, 0, S_S1, 3),
  Row(T7_1B5_144800, "OLD", 24, 40, 0, S_S1, 3),
  Row(T7_1B5_144800, "THU", 25, 30, 0, S_S1, 3) >>

RECURSIVE DayRowsAt(_, _)
DayRowsAt(sel, i) ==
  IF i > Len(DayPool) THEN <<>>
  ELSE IF i \in sel THEN <<DayPool[i]>> \o DayRowsAt(sel, i + 1)
  ELSE DayRowsAt(sel, i + 1)

\* Thursday 2024-10-03 23:50:00, and Friday 2024-10-04 00:30:00, 01:00:00,
\* 02:59:59, 03:00:00 and 08:30:00
DayNows ==
  {TodayStartEpoch - 600, At(0, 30, 0), At(1, 0, 0), At(2, 59, 59), At(3, 0, 0),
   At(8, 30, 0)}

DayRequests ==
  [now : DayNows,
   routeId : {R_B},
   limitParam : {None},
   db : Databases,
   allCandidates :
     {DayRowsAt(sel, 1) : sel \in {x \in SUBSET (1..Len(DayPool)) : Cardinality(x) <= MaxCands}}]

\* a server without real-time source receives one request
DayInit ==
  /\ Unstarted
  /\ req \in {Some(r) : r \in DayRequests}
  /\ resp = None

\* router.get('/:stopId/next') from "const now = new Date()" on
HandleNextOfDay ==
  /\ IsSome(req)
  /\ resp = None
  /\ resp' = Some(DayResponse(IF IsSome(rtCache) THEN Some(heap[Val(rtCache)]) ELSE None,
                              Val(req),
                              getActiveServiceIds(
                                Val(req).db,
                                formatYyyymmddLocal(getServiceDayDateLocal(Val(req).now)),
                                getWeekdayLocal(getServiceDayDateLocal(Val(req).now)))))
  /\ UNCHANGED <<app, env, source, rtCache, heap, lastError, pollingInterval, timers,
                 inflight, held, req>>

SpecDay == DayInit /\ [][HandleNextOfDay]_vars

\* the request came between 00:00:00 and 02:59:59 of Friday 2024-10-04
EarlyOnFriday ==
  /\ Val(req).now >= TodayStartEpoch
  /\ Val(req).now < TodayStartEpoch + 3 * 3600

\* the service day of the response is the calendar day before the request
\* when the request came before 03:00, and the calendar day of the request
\* otherwise
ServiceDayOfRequest ==
  Answered =>
    IF Val(req).now < TodayStartEpoch + 3 * 3600
      THEN /\ Val(resp).serviceDateUsed = D20241003
           /\ Val(resp).weekdayUsed = "thursday"
      ELSE /\ Val(resp).serviceDateUsed = D20241004
           /\ Val(resp).weekdayUsed = "friday"

\* C25: for a request between 00:00:00 and 02:59:59 the service date and the
\* weekday are those of the day before; a departure whose theoretical time T
\* is 24:00:00 or later has minutes = round((T - 86400 - nowSeconds) / 60);
\* and a row of the service day whose theoretical time is before the instant
\* of the request (nowSeconds + 86400 on the clock of the service day) is not
\* among the departures.
C25_ServiceDayClock ==
  (Answered /\ EarlyOnFriday) =>
    /\ Val(resp).serviceDateUsed = D20241003
    /\ Val(resp).weekdayUsed = "thursday"
    /\ \A i \in 1..Len(Val(resp).sorted) :
         SecondsOfClock(Val(req).allCandidates[Val(resp).sorted[i].cand].departure_time) >= 86400
           => Val(resp).sorted[i].minutes
                = (SecondsOfClock(Val(req).allCandidates[Val(resp).sorted[i].cand].departure_time)
                     - 86400 - NowSeconds + 30) \div 60
    /\ \A i \in 1..Len(Val(resp).sorted) :
         SecondsOfClock(Val(req).allCandidates[Val(resp).sorted[i].cand].departure_time)
           >= 86400 + NowSeconds

----
(* Fetch cycles that overlap, and cycles that outlive the poller           *)

\* a step in which suspended cycle i publishes a snapshot
CyclePublishes(i) ==
  /\ BodySettles(i) \/ ReadSettles(i)
  /\ rtCache' # rtCache

\* C26: snapshots are published in the order in which their cycles began: a
\* cycle never publishes after a cycle that began later has published.
C26_PublishedInStartOrder ==
  [][\A i \in 1..Len(inflight) : CyclePublishes(i) => ~inflight[i].overtaken]_vars

\* C27: while the poller is stopped, the published cache and the recorded
\* error stay as they are.
C27_NoChangeAfterStop ==
  [][(pollingInterval = None /\ pollingInterval' = None)
       => (rtCache' = rtCache /\ lastError' = lastError)]_vars

----
(* Route and stop identifiers that contain "_"                             *)

R_A   == <<"A">>
R_A_B == <<"A", "_", "B">>
S_C   == <<"C">>
S_B_C == <<"B", "_", "C">>

\* a trip update of route A or A_B with one departure at stop C or B_C
KeyEntities(tripId) ==
  {FeedTrip(Some(tripId), Some(route), None,
            <<FeedStu(Some(stop), Some(1), None, Event(Some(t), None))>>) :
     route \in {R_A, R_A_B}, stop \in {S_C, S_B_C}, t \in {At(14, 50, 0), At(14, 52, 0)}}

KeyFeeds ==
  {[entity |-> <<a>>] : a \in KeyEntities(T_PLAIN)}
    \cup {[entity |-> <<a, b>>] : a \in KeyEntities(T_PLAIN), b \in KeyEntities(T_A_B)}

\* a feed, and the arguments of the call of findClosestRtUpdate that follows
\* its publication
KeyCalls ==
  [feed : KeyFeeds, routeId : {R_A, R_A_B}, stopId : {S_C, S_B_C},
   targetEpoch : {At(14, 51, 0)}, maxDeltaSeconds : {900}]

KeyInit ==
  /\ env = [url |-> Some(UrlValue), path |-> None]
  /\ source = [kind |-> "good", feed |-> 0]
  /\ rtCache = None
  /\ heap = <<>>
  /\ lastError = None
  /\ pollingInterval = Some(1)
  /\ timers = <<GTFS_RT_POLL_SECONDS * 1000>>
  /\ inflight = <<>>
  /\ held = None
  /\ app = AppStart
  /\ req \in {Some(c) : c \in KeyCalls}
  /\ resp = None

\* fetchRtFeed from FeedMessage.decode to lastError = null, for the feed of
\* the call
BuildForCall ==
  /\ IsSome(req)
  /\ rtCache = None
  /\ rtCache' = Some(Fresh({}))
  /\ heap' = [r \in {Fresh({})} |-> NewCache(Val(req).feed, DateNowMs)]
  /\ lastError' = None
  /\ UNCHANGED <<app, env, source, pollingInterval, timers, inflight, held, req, resp>>

\* findClosestRtUpdate(getRtCache(), routeId, stopId, targetEpoch, 900)
CallClosest ==
  /\ IsSome(req)
  /\ IsSome(rtCache)
  /\ resp = None
  /\ resp' = Some([value |-> findClosestRtUpdate(heap[Val(rtCache)], Val(req).routeId,
                                                 Val(req).stopId, Val(req).targetEpoch,
                                                 Val(req).maxDeltaSeconds)])
  /\ UNCHANGED <<app, env, source, rtCache, heap, lastError, pollingInterval, timers,
                 inflight, held, req>>

SpecKeys == KeyInit /\ [][BuildForCall \/ CallClosest]_vars

\* the route and the stop that the feed reports for the update at src
RouteAt(src) == Val(RouteOf(src[1]))

StopAt(src) == Val(StusOf(src[1])[src[2]].stopId)

WindowAt(src) == (Val(Val(StusOf(src[1])[src[2]].departure).time) \div 300) * 300

\* C28: the updates of one list of dataByRouteStop are of one route and one
\* stop, two updates of different (route, stop, window) have different keys
\* of dataByRouteStopTime, and what findClosestRtUpdate(cache, r, s, ...)
\* returns is an update that the feed reports for route r and stop s.
C28_KeysDoNotCollide ==
  /\ IsSome(rtCache) =>
       /\ \A k \in DOMAIN TheCache.dataByRouteStop :
            \A i, j \in 1..Len(TheCache.dataByRouteStop[k]) :
              /\ RouteAt(TheCache.dataByRouteStop[k][i].src)
                   = RouteAt(TheCache.dataByRouteStop[k][j].src)
              /\ StopAt(TheCache.dataByRouteStop[k][i].src)
                   = StopAt(TheCache.dataByRouteStop[k][j].src)
       /\ \A p, q \in DirectUpdates :
            <<RouteAt(p), StopAt(p), WindowAt(p)>> # <<RouteAt(q), StopAt(q), WindowAt(q)>>
              => createRouteStopTimeKey(RouteAt(p), StopAt(p), WindowAt(p))
                   # createRouteStopTimeKey(RouteAt(q), StopAt(q), WindowAt(q))
  /\ (Answered /\ IsSome(Val(resp).value)) =>
       /\ RouteAt(Val(Val(resp).value).src) = Val(req).routeId
       /\ StopAt(Val(Val(resp).value).src) = Val(req).stopId

----
(* The web client: selections, the auto-refresh and the answers of         *)
(* fetchNextDepartures (App.tsx)                                           *)

\* at most MaxAwaiting handlers are suspended at an await at the same time
MaxAwaiting == 2

\* the stops the user can pick
StopIds == {"S1", "S2"}

\* the identifiers of the directions ("route_id|direction_id|headsign")
DirectionIds == {"A|0|Nord", "B|1|Sud"}

\* the favorites that loadFavorites() found in the local storage
StoredFavorites == {[stopId |-> "S2", directionId |-> "B|1|Sud"]}

\* the lists of departures fetchNextDepartures answers with
DepartureLists ==
  {<<>>, <<[minutes |-> 4, time |-> "08:04", realtime |-> FALSE]>>}

\* the message of the Error a fetch function throws
FetchErrorMessage == "FetchError"

\* what a suspended fetchDirections or fetchNextDepartures settles with
FetchOutcomes ==
  {[ok |-> FALSE, list |-> <<>>]}
    \cup {[ok |-> TRUE, list |-> l] : l \in DepartureLists}

\* the effect that depends on screen, selectedStop and selectedDirection: the
\* interval of the previous render is cleared, and a new one is set when the
\* departures screen shows a stop and a direction; its callback closes over
\* the two selections of that render
AutoRefreshEffect(a) ==
  [a EXCEPT !.intervalId =
     IF a.screen = "departures" /\ IsSome(a.selectedStop)
          /\ IsSome(a.selectedDirection)
       THEN Some([stopId      |-> Val(a.selectedStop),
                  directionId |-> Val(a.selectedDirection)])
       ELSE None]

\* handler fn reaches `await fetch...(stopId, directionId)'
Suspend(a, fn, stopId, directionId) ==
  [a EXCEPT !.awaiting =
     Append(@, [fn |-> fn, stopId |-> stopId, directionId |-> directionId])]

\* the suspended handler i leaves the list
Resume(a, i) ==
  [a EXCEPT !.awaiting =
     [k \in 1..(Len(@) - 1) |-> IF k < i THEN @[k] ELSE @[k + 1]]]

\* handleSelectStop up to its await (the list of stops is on the stops screen)
handleSelectStop(stop) ==
  /\ app.screen = "stops"
  /\ Len(app.awaiting) < MaxAwaiting
  /\ app' = AutoRefreshEffect(
              Suspend([app EXCEPT !.selectedStop = Some(stop),
                                  !.screen = "directions",
                                  !.directionsState = ViewLoading],
                      "handleSelectStop", stop, None))
  /\ UNCHANGED <<pollerVars, req, resp>>

\* handleSelectDirection up to its await (the list of directions is on the
\* directions screen once directionsState is a success)
handleSelectDirection(direction) ==
  /\ app.screen = "directions"
  /\ IsSome(app.selectedStop)
  /\ app.directionsState.status = "success"
  /\ direction \in Val(app.directionsState.content)
  /\ Len(app.awaiting) < MaxAwaiting
  /\ app' = AutoRefreshEffect(
              Suspend([app EXCEPT !.selectedDirection = Some(direction),
                                  !.screen = "departures",
                                  !.departuresState = ViewLoading,
                                  !.lastUpdated = None,
                                  !.refreshError = None],
                      "handleSelectDirection", Val(app.selectedStop),
                      Some(direction)))
  /\ UNCHANGED <<pollerVars, req, resp>>

\* handleSelectFavorite up to its await (the favorites are on the stops screen)
handleSelectFavorite(favorite) ==
  /\ app.screen = "stops"
  /\ Len(app.awaiting) < MaxAwaiting
  /\ app' = AutoRefreshEffect(
              Suspend([app EXCEPT !.selectedStop = Some(favorite.stopId),
                                  !.selectedDirection =
                                     Some(favorite.directionId),
                                  !.screen = "departures",
                                  !.departuresState = ViewLoading,
                                  !.lastUpdated = None,
                                  !.refreshError = None],
                      "handleSelectFavorite", favorite.stopId,
                      Some(favorite.directionId)))
  /\ UNCHANGED <<pollerVars, req, resp>>

\* the back button of the directions screen
handleBackToStops ==
  /\ app.screen = "directions"
  /\ IsSome(app.selectedStop)
  /\ app' = AutoRefreshEffect([app EXCEPT !.screen = "stops",
                                          !.selectedStop = None,
                                          !.selectedDirection = None,
                                          !.directionsState = ViewIdle,
                                          !.departuresState = ViewIdle])
  /\ UNCHANGED <<pollerVars, req, resp>>

\* the back button of the departures screen
handleBackToDirections ==
  /\ app.screen = "departures"
  /\ IsSome(app.selectedStop)
  /\ IsSome(app.selectedDirection)
  /\ app' = AutoRefreshEffect([app EXCEPT !.screen = "directions",
                                          !.selectedDirection = None,
                                          !.departuresState = ViewIdle])
  /\ UNCHANGED <<pollerVars, req, resp>>

\* the interval fires: refreshDepartures up to its await
refreshDepartures ==
  /\ IsSome(app.intervalId)
  /\ Len(app.awaiting) < MaxAwaiting
  /\ app' = Suspend([app EXCEPT !.isRefreshing = TRUE,
                                !.refreshError = None],
                    "refreshDepartures", Val(app.intervalId).stopId,
                    Some(Val(app.intervalId).directionId))
  /\ UNCHANGED <<pollerVars, req, resp>>

\* the refresh button of the departures screen: handleManualRefresh up to its
\* await
handleManualRefresh ==
  /\ app.screen = "departures"
  /\ IsSome(app.selectedStop)
  /\ IsSome(app.selectedDirection)
  /\ ~(app.isRefreshing \/ app.departuresState.status = "loading")
  /\ Len(app.awaiting) < MaxAwaiting
  /\ app' = Suspend([app EXCEPT !.isRefreshing = TRUE,
                                !.refreshError = None],
                    "handleManualRefresh", Val(app.selectedStop),
                    app.selectedDirection)
  /\ UNCHANGED <<pollerVars, req, resp>>

\* the rest of handleSelectStop after fetchDirections has settled
AfterFetchDirections(a, call, outcome) ==
  IF outcome.ok
    THEN [a EXCEPT !.directionsState =
            ViewState("success", Some(DirectionIds), None,
                      Some(<<call.stopId>>))]
    ELSE [a EXCEPT !.directionsState =
            ViewState("error", None, Some(FetchErrorMessage), None)]

\* the rest of handleSelectDirection and of handleSelectFavorite after
\* fetchNextDepartures has settled
AfterFirstFetch(a, call, outcome) ==
  IF outcome.ok
    THEN [a EXCEPT !.departuresState =
                      ViewState("success", Some(outcome.list), None,
                                Some(<<call.stopId, Val(call.directionId)>>)),
                   !.lastUpdated = Some(DateNowMs)]
    ELSE [a EXCEPT !.departuresState =
            ViewState("error", None, Some(FetchErrorMessage), None)]

\* the rest of refreshDepartures and of handleManualRefresh after
\* fetchNextDepartures has settled
AfterRefresh(a, call, outcome) ==
  IF outcome.ok
    THEN [a EXCEPT !.departuresState =
                      ViewState("success", Some(outcome.list), None,
                                Some(<<call.stopId, Val(call.directionId)>>)),
                   !.lastUpdated = Some(DateNowMs),
                   !.refreshError = None,
                   !.isRefreshing = FALSE]
    ELSE [a EXCEPT !.refreshError = Some(FetchErrorMessage),
                   !.isRefreshing = FALSE]

\* the promise the suspended handler i waits for settles, and the handler
\* runs to its end
FetchReturns(i, outcome) ==
  /\ i \in 1..Len(app.awaiting)
  /\ LET call == app.awaiting[i]
         rest == Resume(app, i)
     IN app' = CASE call.fn = "handleSelectStop"
                      -> AfterFetchDirections(rest, call, outcome)
                 [] call.fn \in {"handleSelectDirection",
                                 "handleSelectFavorite"}
                      -> AfterFirstFetch(rest, call, outcome)
                 [] OTHER
                      -> AfterRefresh(rest, call, outcome)
  /\ UNCHANGED <<pollerVars, req, resp>>

AppInit ==
  /\ Unstarted
  /\ req = None
  /\ resp = None

AppNext ==
  \/ \E stop \in StopIds : handleSelectStop(stop)
  \/ \E direction \in DirectionIds : handleSelectDirection(direction)
  \/ \E favorite \in StoredFavorites : handleSelectFavorite(favorite)
  \/ handleBackToStops
  \/ handleBackToDirections
  \/ refreshDepartures
  \/ handleManualRefresh
  \/ \E i \in 1..MaxAwaiting, outcome \in FetchOutcomes :
       FetchReturns(i, outcome)

SpecApp == AppInit /\ [][AppNext]_vars

\* the stop and the direction that are selected
Selection == <<Val(app.selectedStop), Val(app.selectedDirection)>>

\* a refresh fails in this step
RefreshFails ==
  \E i \in 1..Len(app.awaiting) :
    /\ app.awaiting[i].fn \in {"refreshDepartures", "handleManualRefresh"}
    /\ FetchReturns(i, [ok |-> FALSE, list |-> <<>>])

\* a refresh that fails leaves departuresState as it was
FailedRefreshKeepsDepartures ==
  [][RefreshFails => app'.departuresState = app.departuresState]_vars

\* C30: the departures held in departuresState were fetched for the stop and
\* the direction that are selected now.
C30_DeparturesOfSelection ==
  app.departuresState.status = "success" =>
    /\ IsSome(app.selectedStop)
    /\ IsSome(app.selectedDirection)
    /\ Val(app.departuresState.of) = Selection

====
